---- MODULE Spec2Model ----
(***************************************************************************)
(* Call coordination and preview caching of Proyecto_Canvas.               *)
(*                                                                         *)
(* Part 1: PyWorkerClient (call registry + latest-call coordinator).       *)
(* Part 2: the preview pipeline of App, its blob-URL cache and settings.   *)
(* Part 3: useSliderCommit (throttled fast updates, final commit).         *)
(* Part 4: template selection in App and CanvasLayoutPanel.                *)
(* Part 5: stableStringify and previewDepsHash (settings fingerprint).     *)
(*                                                                         *)
(* Execution model of part 1.  The host is a single JavaScript thread.     *)
(* A worker message, a timer and a worker 'error' event each run as one    *)
(* task; the promise reactions that callLatest chains on the underlying    *)
(* call (.then/.catch, then .finally) run as microtasks after the          *)
(* synchronous code that settled the promise.  Tasks are taken only when   *)
(* no reaction is queued.  When a task settles a single promise, nothing   *)
(* else is queued and the chain runs to its end inside the task            *)
(* (DrainLatest).  When synchronous code settles a promise (abort from     *)
(* callLatest/cancelLatest/dispose, a failed worker) or one task settles   *)
(* several promises (worker error), further API calls can run before the   *)
(* reactions (React, Finally).                                             *)
(***************************************************************************)
EXTENDS Integers, Sequences, FiniteSets, TLC

MaxCalls == 2

\* cancelLatest is taken at most MaxCancels times
MaxCancels == 1

\* the preview effect runs at most MaxGenerations times
MaxGenerations == 4

\* number of distinct settings fingerprints (previewDepsHash values)
MaxPreviewKeys == 2

\* PREVIEW_CACHE_LIMIT is 30 in App.tsx; the model scales it down so that
\* evictions happen within MaxGenerations renders
PREVIEW_CACHE_LIMIT == 2

\* number of distinct URLs handed to the cache when cachePreviewUrl and
\* getCachedPreviewUrl are exercised on their own
MaxHandles == 2

Urls == 1..MaxGenerations

\* throttleMs and idleFinalMs are 200 and 650 (milliseconds) where the hook is
\* used; the model counts time in ticks and scales both down
throttleMs == 2

idleFinalMs == 3

\* the clock stops at MaxTime
MaxTime == 8

\* input events (change, pointer down/up, blur) and external value updates
MaxUserEvents == 4

\* previewMaxDim takes the values 1..MaxPreviewMaxDim
MaxPreviewMaxDim == 2

\* slider values are 0..MaxSliderValue
MaxSliderValue == 1

SliderValues == 0..MaxSliderValue

Handles == 1..MaxHandles

\* keys for the same purpose: one more than the cache can hold
DirectKeys == {<<k, "final">> : k \in 1..(PREVIEW_CACHE_LIMIT + 1)}

Qualities == {"fast", "final"}

\* cacheKey = `${previewKey}::${quality}`
CacheKeys == (1..MaxPreviewKeys) \X Qualities

Ids == 1..MaxCalls

\* slot keys used by App.handleRenderPreview
Keys == {"preview-render-fast", "preview-render-final"}

NoKey == "-"

\* the ranges a template's layout declares are {MinRange, MaxRange, DefaultRange}
\* as {min, max, default}, and the narrower {0, DefaultRange, DefaultRange}
MinRange == 1

DefaultRange == 2

MaxRange == 8

\* template ids are 1..MaxTemplates; 0 stands for ''
MaxTemplates == 1

\* user events on the template selector, the external library and the panel
MaxLayoutEvents == 5

\* entries of an object handed to stableStringify
MaxEntries == 2

\* dye ids are 1..MaxDyes
MaxDyes == 2

Ranges == {[min |-> MinRange, max |-> MaxRange, default |-> DefaultRange],
           [min |-> 0, max |-> DefaultRange, default |-> DefaultRange]}

NoRange == [min |-> 0, max |-> 0, default |-> 0]

\* the fields of CanvasRequest
Fields == {"rows", "cols", "rows_y", "blocks_x"}

NoField == "-"

FixedLayout == [kind |-> "fixed", rows |-> NoRange, cols |-> NoRange,
                rows_y |-> NoRange, blocks_x |-> NoRange]

\* canvasLayout = null
NoLayout == [FixedLayout EXCEPT !.kind = "none"]

\* CanvasLayoutInfo; a range the kind does not declare is NoRange
Layouts ==
    {FixedLayout}
    \cup {[FixedLayout EXCEPT !.kind = "multi_canvas", !.rows = r, !.cols = c] :
             r \in Ranges, c \in Ranges}
    \cup {[FixedLayout EXCEPT !.kind = "dynamic", !.rows_y = r, !.blocks_x = c] :
             r \in Ranges, c \in Ranges}

\* a field of CanvasRequest that is not set
Undefined == -1

\* canvas_request = null; `request?.field` reads every field of it as undefined
NullRequest == [rows |-> Undefined, cols |-> Undefined, rows_y |-> Undefined,
                blocks_x |-> Undefined]

\* parseInteger's null
NullNumber == -1

\* the characters of the decimal digits, by value
DigitChars == <<"0", "1", "2", "3", "4", "5", "6", "7", "8", "9">>

VARIABLES
    worker,                 \* this.worker: "ok" | "null" (construction failed)
    attached,               \* message/error listeners registered on the worker
    nextId,                 \* this.nextId
    pending,                \* keys of this.pending
    timers,                 \* ids whose setTimeout is armed
    latestCallCounters,     \* key -> generation, 0 when the key is absent
    latestCallControllers,  \* key -> id of the call owning the controller, 0 when absent
    abortedControllers,     \* ids whose AbortController was aborted
    extAborted,             \* the external AbortSignal is aborted
    listeners,              \* ids whose onAbort listener is registered and has not fired
    callInfo,               \* id -> how the call was issued
    invoked,                \* id -> sequence of resolve/reject invocations, by cause
    latestOutcome,          \* id -> outcome decided by callLatest's then/catch, "none" before
    latestDone,             \* ids whose callLatest promise has settled (finally ran)
    posted,                 \* ids passed to worker.postMessage
    dropped,                \* ids of worker messages dropped as unmatched
    touch,                  \* id -> later operations on its key before its outcome was decided
    cancels,                \* number of cancelLatest calls so far
    \* App: preview pipeline
    mounted,                \* the App component is mounted
    previewCache,           \* previewCacheRef: entries [key, url] in Map insertion order
    currentBlobUrl,         \* currentBlobUrlRef: a URL, 0 for null
    previewGeneration,      \* previewGenerationRef
    renders,                \* handleRenderPreview runs awaiting the Engine:
                            \* [gen, key, maxDim, stage], maxDim the previewMaxDim of its
                            \* settings, stage the call it awaits
    nextUrl,                \* the next URL that URL.createObjectURL returns
    revokeCount,            \* url -> number of URL.revokeObjectURL calls on it
    cacheOp,                \* the last direct call of cachePreviewUrl / getCachedPreviewUrl
    currentKey,             \* previewDepsHash of the current settings
    pendingPreviewQuality,  \* pendingPreviewQualityRef
    isReady,                \* state.image_meta && state.selected_template_id
    previewMaxDim,          \* previewMaxDim (useState)
    urlMaxDim,              \* url -> settings.previewMaxDim of the request it answers, 0 before
    previewError,           \* the last handleRpcError call of handleRenderPreview:
                            \* [gen, current], the request's and the current generation
    \* useSliderCommit
    now,                    \* performance.now(), in ticks
    sliderMounted,          \* the component using the hook is mounted
    dragging,               \* draggingRef
    lastFastAt,             \* lastFastAtRef
    idleTimer,              \* due time of the armed idle timer, NoTimer when none is armed
    trailingFastTimer,      \* due time of the armed trailing fast timer, NoTimer when none
    latestValue,            \* latestValueRef
    userEvents,             \* number of input events and external value updates so far
    fastLog,                \* the onFast calls so far: [at, value]
    finalLog,               \* the onFinal calls so far: [at, value]
    sliderChanges,          \* number of onChange events so far
    finalsSinceChange,      \* number of onFinal calls since the last onChange
    lastInput,              \* [changed, set]: the value of the last onChange, and of the
                            \* last onChange or setValueFromExternal
    \* App: template selection and CanvasLayoutPanel
    selected_template_id,   \* state.selected_template_id, 0 for ''
    canvasLayout,           \* canvasLayout (useState), NoLayout for null
    canvas_request,         \* state.canvas_request, NullRequest for null
    loading,                \* loading (useState)
    fieldText,              \* rowsText, colsText, rowsYText, blocksXText
    isEditing,              \* isEditingRows, isEditingCols, isEditingRowsY, isEditingBlocksX
    focused,                \* the panel input holding the focus, NoField when none does
    layoutCalls,            \* handlers awaiting the Engine: [handler, method, payload, seq]
    sentCanvasRequests,     \* payloads of the pc.setCanvasRequest calls so far
    lastForward,            \* the panel's last onChange call: [op, field, text, request, layout]
    resolvedCanvas,         \* resolvedCanvas (useState), as the response it was taken from
    layoutEvents,           \* number of user events on the selector and the panel so far
    \* stableStringify / previewDepsHash
    leftValue,              \* a value handed to stableStringify
    rightValue,             \* the same value with its objects' keys inserted in another order
    leftDyes,               \* state.enabled_dyes of one settings state, in insertion order
    rightDyes               \* state.enabled_dyes of another settings state, in insertion order

clientVars == <<worker, attached, nextId, pending, timers, latestCallCounters,
                latestCallControllers, abortedControllers, extAborted, listeners,
                callInfo, invoked, latestOutcome, latestDone, posted, dropped, touch, cancels>>

cacheVars == <<mounted, previewCache, currentBlobUrl, previewGeneration, renders,
               nextUrl, revokeCount, cacheOp>>

sliderVars == <<now, sliderMounted, dragging, lastFastAt, idleTimer, trailingFastTimer,
                latestValue, userEvents, fastLog, finalLog, sliderChanges, finalsSinceChange,
                lastInput>>

layoutVars == <<selected_template_id, canvasLayout, canvas_request, loading, fieldText,
                isEditing, focused, layoutCalls, sentCanvasRequests, lastForward,
                resolvedCanvas, layoutEvents>>

hashVars == <<leftValue, rightValue, leftDyes, rightDyes>>

settingsVars == <<currentKey, pendingPreviewQuality, isReady, previewMaxDim, urlMaxDim,
                  previewError>>

vars == <<clientVars, cacheVars, settingsVars, sliderVars, layoutVars, hashVars>>

\* what the operations of one part leave alone
exceptClient == <<cacheVars, settingsVars, sliderVars, layoutVars, hashVars>>

exceptPreview == <<clientVars, sliderVars, layoutVars, hashVars>>

exceptSlider == <<clientVars, cacheVars, settingsVars, layoutVars, hashVars>>

exceptLayout == <<clientVars, cacheVars, settingsVars, sliderVars, hashVars>>

exceptFingerprint == <<clientVars, cacheVars, settingsVars, sliderVars, layoutVars>>

\* preAborted: the signal was already aborted when call() ran
Unissued == [via |-> "unissued", key |-> NoKey, gen |-> 0, signal |-> "none",
             preAborted |-> FALSE]

\* op: "put" | "get"; url: the URL stored, or the one returned (0 for null);
\* present: the key was in the Map before the call; evicted: entries evicted
\* afterPut: a get whose preceding call was a put of the same key
NoCacheOp == [op |-> "none", key |-> <<0, "final">>, url |-> 0, present |-> FALSE,
              evicted |-> 0, afterPut |-> FALSE]

InitPreviewWith(current) ==
    /\ mounted = TRUE
    /\ previewCache = <<>>
    /\ currentBlobUrl = current
    /\ previewGeneration = 0
    /\ renders = {}
    /\ nextUrl = 1
    /\ revokeCount = [u \in Urls |-> 0]
    /\ cacheOp = NoCacheOp
    /\ currentKey = 1
    /\ pendingPreviewQuality = "final"
    /\ isReady = FALSE
    /\ previewMaxDim = 1
    /\ urlMaxDim = [u \in Urls |-> 0]
    /\ previewError = [gen |-> 0, current |-> 0]

InitPreview == InitPreviewWith(0)

InitClient ==
    /\ worker \in {"ok", "null"}
    /\ attached = (worker = "ok")
    /\ nextId = 1
    /\ pending = {}
    /\ timers = {}
    /\ latestCallCounters = [k \in Keys |-> 0]
    /\ latestCallControllers = [k \in Keys |-> 0]
    /\ abortedControllers = {}
    /\ extAborted = FALSE
    /\ listeners = {}
    /\ callInfo = [i \in Ids |-> Unissued]
    /\ invoked = [i \in Ids |-> <<>>]
    /\ latestOutcome = [i \in Ids |-> "none"]
    /\ latestDone = {}
    /\ posted = {}
    /\ dropped = {}
    /\ touch = [i \in Ids |-> {}]
    /\ cancels = 0

NoTimer == -1

InitSlider ==
    /\ now = 0
    /\ sliderMounted = TRUE
    /\ dragging = FALSE
    /\ lastFastAt = 0
    /\ idleTimer = NoTimer
    /\ trailingFastTimer = NoTimer
    /\ latestValue = 0
    /\ userEvents = 0
    /\ fastLog = <<>>
    /\ finalLog = <<>>
    /\ sliderChanges = 0
    /\ finalsSinceChange = 0
    /\ lastInput = [changed |-> 0, set |-> 0]

NoForward == [op |-> "none", field |-> NoField, text |-> <<>>, request |-> NullRequest,
              layout |-> NoLayout]

\* canvas_resolved of a response, named by the call it answers: the method
\* and, for pc.setCanvasRequest, the position of the call among those sent
CanvasResolved(method, seq) == [method |-> method, seq |-> seq]

\* setResolvedCanvas(null)
NoCanvas == CanvasResolved("none", 0)

InitLayout ==
    /\ selected_template_id = 0
    /\ canvasLayout = NoLayout
    /\ canvas_request = NullRequest
    /\ loading = FALSE
    /\ fieldText = [f \in Fields |-> <<>>]
    /\ isEditing = [f \in Fields |-> FALSE]
    /\ focused = NoField
    /\ layoutCalls = <<>>
    /\ sentCanvasRequests = <<>>
    /\ lastForward = NoForward
    /\ resolvedCanvas = NoCanvas
    /\ layoutEvents = 0

\* JavaScript values as stableStringify sees them: a number, an array (items
\* carry no key) or an object (items are its entries in insertion order)
Prim(n) == [t |-> "prim", n |-> n, items |-> <<>>]

Entry(key, value) == [key |-> key, value |-> value]

Arr(values) == [t |-> "array", n |-> 0,
                items |-> [i \in 1..Len(values) |-> Entry("", values[i])]]

Obj(entries) == [t |-> "object", n |-> 0, items |-> entries]

InitFingerprintWith(left, right, dyesL, dyesR) ==
    /\ leftValue = left
    /\ rightValue = right
    /\ leftDyes = dyesL
    /\ rightDyes = dyesR

InitFingerprint == InitFingerprintWith(Prim(0), Prim(0), <<>>, <<>>)

Init ==
    /\ InitPreview
    /\ InitClient
    /\ InitSlider
    /\ InitLayout
    /\ InitFingerprint

----------------------------------------------------------------------------
\* The registry part of the state, threaded through the helpers below.
Reg == [pending |-> pending, timers |-> timers, listeners |-> listeners,
        invoked |-> invoked, posted |-> posted]

\* resolve(...) or reject(...) of call id; a promise keeps its first outcome
Settle(r, id, cause) == [r EXCEPT !.invoked[id] = Append(@, cause)]

Outcome(inv, id) == IF inv[id] = <<>> THEN "none" ELSE Head(inv[id])

\* mutant: the entry is deleted but its timer is left armed
clearPendingKeepTimer(r, id) ==
    IF id \notin r.pending
    THEN r
    ELSE [r EXCEPT !.pending = @ \ {id}]

clearPending(r, id) ==
    IF id \notin r.pending
    THEN r
    ELSE [r EXCEPT !.timers = @ \ {id}, !.pending = @ \ {id}]

onAbort(r, id) == Settle(clearPending(r, id), id, "abort")

\* dispatch of the 'abort' event to the {once: true} listener of call id
FireListener(r, id) ==
    IF id \in r.listeners
    THEN [onAbort(r, id) EXCEPT !.listeners = @ \ {id}]
    ELSE r

\* controller.abort() for the controller of call c (0: no controller)
AbortController(r, c) ==
    IF c = 0 \/ c \in abortedControllers THEN r ELSE FireListener(r, c)

\* mutant: the signal is looked at only after the entry was registered and posted
callCheckAbortLate(r, id, signal, timed, signalAborted) ==
    LET r1 == IF timed THEN [r EXCEPT !.timers = @ \cup {id}] ELSE r
        r2 == [r1 EXCEPT !.pending = @ \cup {id}, !.posted = @ \cup {id}]
    IN  IF signal # "none" /\ signalAborted
        THEN Settle(r2, id, "abort")
        ELSE IF signal # "none" THEN [r2 EXCEPT !.listeners = @ \cup {id}] ELSE r2

\* mutant: with a failed worker the call stays registered and is never rejected
callSilentlyPending(r, id, signal, timed, signalAborted) ==
    LET r1 == IF timed THEN [r EXCEPT !.timers = @ \cup {id}] ELSE r
    IN  IF signal # "none" /\ signalAborted
        THEN onAbort(r1, id)
        ELSE LET r2 == IF signal # "none"
                       THEN [r1 EXCEPT !.listeners = @ \cup {id}]
                       ELSE r1
                 r3 == [r2 EXCEPT !.pending = @ \cup {id}]
             IN  IF worker = "ok"
                 THEN [r3 EXCEPT !.posted = @ \cup {id}]
                 ELSE r3

\* body of the executor in call()
call(r, id, signal, timed, signalAborted) ==
    LET r1 == IF timed THEN [r EXCEPT !.timers = @ \cup {id}] ELSE r
    IN  IF signal # "none" /\ signalAborted
        THEN onAbort(r1, id)
        ELSE LET r2 == IF signal # "none"
                       THEN [r1 EXCEPT !.listeners = @ \cup {id}]
                       ELSE r1
                 r3 == [r2 EXCEPT !.pending = @ \cup {id}]
             IN  IF worker = "ok"
                 THEN [r3 EXCEPT !.posted = @ \cup {id}]
                 ELSE Settle(r3, id, "startupError")

\* mutant: the timer rejects but leaves the entry in the registry
timeoutCallbackKeepPending(r, id) ==
    Settle([r EXCEPT !.timers = @ \ {id}], id, "timeout")

\* setTimeout callback of call id
timeoutCallback(r, id) ==
    Settle([r EXCEPT !.timers = @ \ {id}, !.pending = @ \ {id}], id, "timeout")

\* mutant: the catch handler rethrows the error as it is
LatestDecisionNoCatch(id, counters, abortedSet, underlying) ==
    IF underlying = "value" /\ counters[callInfo[id].key] # callInfo[id].gen
    THEN "cancelled"
    ELSE underlying

\* mutant: the generation is captured before it is incremented
LatestDecisionOffByOne(id, counters, abortedSet, underlying) ==
    LET stale == counters[callInfo[id].key] # callInfo[id].gen - 1
        afterThen == IF underlying = "value" /\ stale THEN "cancelled" ELSE underlying
    IN  IF afterThen = "value" THEN "value"
        ELSE IF id \in abortedSet /\ stale THEN "cancelled"
        ELSE afterThen

\* outcome of the .then(...).catch(...) chain of callLatest for call id
LatestDecision(id, counters, abortedSet, underlying) ==
    LET stale == counters[callInfo[id].key] # callInfo[id].gen
        afterThen == IF underlying = "value" /\ stale THEN "cancelled" ELSE underlying
    IN  IF afterThen = "value" THEN "value"
        ELSE IF id \in abortedSet /\ stale THEN "cancelled"
        ELSE afterThen

\* .finally(...) of callLatest for call id
LatestFinally(id, controllers) ==
    IF controllers[callInfo[id].key] = id
    THEN [controllers EXCEPT ![callInfo[id].key] = 0]
    ELSE controllers

\* callLatest promises whose reactions are queued
Queued == {i \in Ids : callInfo[i].via = "latest" /\ invoked[i] # <<>> /\ i \notin latestDone}

SetReg(r) ==
    /\ pending' = r.pending
    /\ timers' = r.timers
    /\ listeners' = r.listeners
    /\ invoked' = r.invoked
    /\ posted' = r.posted

\* the whole reaction chain of call id, run inside the task that settled it
DrainLatest(id, r) ==
    IF callInfo[id].via = "latest" /\ invoked[id] = <<>>
    THEN /\ latestOutcome' = [latestOutcome EXCEPT ![id] =
                LatestDecision(id, latestCallCounters, abortedControllers, Outcome(r.invoked, id))]
         /\ latestDone' = latestDone \cup {id}
         /\ latestCallControllers' = LatestFinally(id, latestCallControllers)
    ELSE UNCHANGED <<latestOutcome, latestDone, latestCallControllers>>

\* callLatest calls on key k whose then/catch has not run yet
Live(k) == {i \in Ids : callInfo[i].via = "latest" /\ callInfo[i].key = k /\ latestOutcome[i] = "none"}

Touch(ids, tag) == [i \in Ids |-> IF i \in ids THEN touch[i] \cup {tag} ELSE touch[i]]

----------------------------------------------------------------------------
\* client.call(method, params, {timeoutMs?, signal?})
Call(signal, timed) ==
    /\ nextId <= MaxCalls
    /\ signal \in {"none", "ext"}
    /\ nextId' = nextId + 1
    /\ callInfo' = [callInfo EXCEPT ![nextId] =
            [via |-> "call", key |-> NoKey, gen |-> 0, signal |-> signal,
             preAborted |-> (signal = "ext" /\ extAborted)]]
    /\ SetReg(call(Reg, nextId, signal, timed, extAborted))
    /\ UNCHANGED <<worker, attached, latestCallCounters, latestCallControllers,
                   abortedControllers, extAborted, latestOutcome, latestDone, dropped, touch, cancels, exceptClient>>

\* client.callLatest(method, params, key, {timeoutMs?})
CallLatest(key, timed) ==
    LET nextCount == latestCallCounters[key] + 1
        previousController == latestCallControllers[key]
        r1 == AbortController(Reg, previousController)
    IN  /\ nextId <= MaxCalls
        /\ nextId' = nextId + 1
        /\ latestCallCounters' = [latestCallCounters EXCEPT ![key] = nextCount]
        /\ abortedControllers' = abortedControllers \cup ({previousController} \ {0})
        /\ latestCallControllers' = [latestCallControllers EXCEPT ![key] = nextId]
        /\ callInfo' = [callInfo EXCEPT ![nextId] =
                [via |-> "latest", key |-> key, gen |-> nextCount, signal |-> "own",
                 preAborted |-> FALSE]]
        /\ SetReg(call(r1, nextId, "own", timed, FALSE))
        /\ touch' = Touch(Live(key), "newer")
        /\ UNCHANGED <<worker, attached, extAborted, latestOutcome, latestDone, dropped, cancels, exceptClient>>

\* mutant: every key's controller is dropped, not only this key's
CancelLatestClearAll(key) ==
    LET controller == latestCallControllers[key]
    IN  /\ cancels < MaxCancels
        /\ cancels' = cancels + 1
        /\ latestCallCounters' = [latestCallCounters EXCEPT ![key] = @ + 1]
        /\ abortedControllers' = abortedControllers \cup ({controller} \ {0})
        /\ latestCallControllers' = [k \in Keys |-> 0]
        /\ SetReg(AbortController(Reg, controller))
        /\ touch' = Touch(Live(key), "cancel")
        /\ UNCHANGED <<worker, attached, nextId, extAborted, callInfo, latestOutcome,
                       latestDone, dropped, exceptClient>>

\* client.cancelLatest(key)
CancelLatest(key) ==
    LET controller == latestCallControllers[key]
    IN  /\ cancels < MaxCancels
        /\ cancels' = cancels + 1
        /\ latestCallCounters' = [latestCallCounters EXCEPT ![key] = @ + 1]
        /\ abortedControllers' = abortedControllers \cup ({controller} \ {0})
        /\ latestCallControllers' = [latestCallControllers EXCEPT ![key] = 0]
        /\ SetReg(AbortController(Reg, controller))
        /\ touch' = Touch(Live(key), "cancel")
        /\ UNCHANGED <<worker, attached, nextId, extAborted, callInfo, latestOutcome,
                       latestDone, dropped, exceptClient>>

\* abort() of the external AbortSignal that callers of call() may pass
RECURSIVE FireAll(_, _)
FireAll(r, ids) ==
    IF ids = {} THEN r
    ELSE LET i == CHOOSE x \in ids : TRUE
         IN  FireAll(FireListener(r, i), ids \ {i})

AbortExt ==
    /\ ~extAborted
    /\ extAborted' = TRUE
    /\ SetReg(FireAll(Reg, {i \in listeners : callInfo[i].signal = "ext"}))
    /\ UNCHANGED <<worker, attached, nextId, latestCallCounters, latestCallControllers,
                   abortedControllers, callInfo, latestOutcome, latestDone, dropped, touch, cancels, exceptClient>>

\* mutant: no early return when the id has no pending entry
HandleMessageNoGuard(id, ok) ==
    /\ attached
    /\ Queued = {}
    /\ LET r == Settle(clearPending(Reg, id), id, IF ok THEN "value" ELSE "rpcError")
       IN  /\ SetReg(r)
           /\ DrainLatest(id, r)
    /\ dropped' = IF id \in pending THEN dropped ELSE dropped \cup {id}
    /\ UNCHANGED <<worker, attached, nextId, latestCallCounters, abortedControllers,
                   extAborted, callInfo, touch, cancels, exceptClient>>

\* handleMessage: a worker message {id, ok, ...} is delivered
HandleMessage(id, ok) ==
    /\ attached
    /\ Queued = {}
    /\ IF id \notin pending
       THEN /\ dropped' = dropped \cup {id}
            /\ UNCHANGED <<pending, timers, listeners, invoked, posted, latestOutcome,
                           latestDone, latestCallControllers>>
       ELSE LET r == Settle(clearPending(Reg, id), id, IF ok THEN "value" ELSE "rpcError")
            IN  /\ SetReg(r)
                /\ DrainLatest(id, r)
                /\ UNCHANGED dropped
    /\ UNCHANGED <<worker, attached, nextId, latestCallCounters, abortedControllers,
                   extAborted, callInfo, touch, cancels, exceptClient>>

\* the timer set by call() fires
Timeout(id) ==
    /\ id \in timers
    /\ Queued = {}
    /\ LET r == timeoutCallback(Reg, id)
       IN  /\ SetReg(r)
           /\ DrainLatest(id, r)
    /\ UNCHANGED <<worker, attached, nextId, latestCallCounters, abortedControllers,
                   extAborted, callInfo, dropped, touch, cancels, exceptClient>>

\* mutant: the loop rejects and deletes the entries but leaves their timers armed
RejectAllPendingKeepTimers(r, cause) ==
    [r EXCEPT !.invoked = [i \in Ids |-> IF i \in r.pending THEN Append(@[i], cause) ELSE @[i]],
              !.pending = {}]

\* the loop shared by handleWorkerError and dispose
RejectAllPending(r, cause) ==
    [r EXCEPT !.timers = @ \ r.pending,
              !.invoked = [i \in Ids |-> IF i \in r.pending THEN Append(@[i], cause) ELSE @[i]],
              !.pending = {}]

\* handleWorkerError: the worker raises an 'error' event
HandleWorkerError ==
    /\ attached
    /\ Queued = {}
    /\ pending # {}
    /\ LET r == RejectAllPending(Reg, "workerError")
       IN  /\ SetReg(r)
           /\ IF Cardinality(pending) = 1
              THEN DrainLatest(CHOOSE i \in pending : TRUE, r)
              ELSE UNCHANGED <<latestOutcome, latestDone, latestCallControllers>>
    /\ UNCHANGED <<worker, attached, nextId, latestCallCounters, abortedControllers,
                   extAborted, callInfo, dropped, touch, cancels, exceptClient>>

RECURSIVE AbortAll(_, _)
AbortAll(r, cs) ==
    IF cs = {} THEN r
    ELSE LET c == CHOOSE x \in cs : TRUE
         IN  AbortAll(AbortController(r, c), cs \ {c})

\* mutant: the listeners stay on the worker
DisposeNoDetach ==
    LET controllers == {latestCallControllers[k] : k \in Keys} \ {0}
        r1 == AbortAll(Reg, controllers)
    IN  /\ abortedControllers' = abortedControllers \cup controllers
        /\ latestCallControllers' = [k \in Keys |-> 0]
        /\ latestCallCounters' = [k \in Keys |-> 0]
        /\ SetReg(RejectAllPending(r1, "disposed"))
        /\ touch' = Touch(UNION {Live(k) : k \in Keys}, "dispose")
        /\ UNCHANGED <<worker, attached, nextId, extAborted, callInfo, latestOutcome,
                       latestDone, dropped, cancels, exceptClient>>

\* client.dispose()
Dispose ==
    LET controllers == {latestCallControllers[k] : k \in Keys} \ {0}
        r1 == AbortAll(Reg, controllers)
    IN  /\ abortedControllers' = abortedControllers \cup controllers
        /\ latestCallControllers' = [k \in Keys |-> 0]
        /\ latestCallCounters' = [k \in Keys |-> 0]
        /\ SetReg(RejectAllPending(r1, "disposed"))
        /\ attached' = FALSE
        /\ touch' = Touch(UNION {Live(k) : k \in Keys}, "dispose")
        /\ UNCHANGED <<worker, nextId, extAborted, callInfo, latestOutcome, latestDone,
                       dropped, cancels, exceptClient>>

\* microtask: the then/catch reactions of callLatest for call id
React(id) ==
    /\ id \in Queued
    /\ latestOutcome[id] = "none"
    /\ latestOutcome' = [latestOutcome EXCEPT ![id] =
            LatestDecision(id, latestCallCounters, abortedControllers, Outcome(invoked, id))]
    /\ UNCHANGED <<worker, attached, nextId, pending, timers, latestCallCounters,
                   latestCallControllers, abortedControllers, extAborted, listeners,
                   callInfo, invoked, latestDone, posted, dropped, touch, cancels, exceptClient>>

\* microtask: the finally reaction of callLatest for call id
Finally(id) ==
    /\ id \in Queued
    /\ latestOutcome[id] # "none"
    /\ latestDone' = latestDone \cup {id}
    /\ latestCallControllers' = LatestFinally(id, latestCallControllers)
    /\ UNCHANGED <<worker, attached, nextId, pending, timers, latestCallCounters,
                   abortedControllers, extAborted, listeners, callInfo, invoked,
                   latestOutcome, posted, dropped, touch, cancels, exceptClient>>

Next ==
    \/ \E s \in {"none", "ext"}, t \in BOOLEAN : Call(s, t)
    \/ \E k \in Keys, t \in BOOLEAN : CallLatest(k, t)
    \/ \E k \in Keys : CancelLatest(k)
    \/ AbortExt
    \/ \E i \in Ids, ok \in BOOLEAN : HandleMessage(i, ok)
    \/ \E i \in Ids : Timeout(i)
    \/ HandleWorkerError
    \/ Dispose
    \/ \E i \in Ids : React(i)
    \/ \E i \in Ids : Finally(i)

Spec == Init /\ [][Next]_vars

----------------------------------------------------------------------------
\* App: the preview pipeline and its blob-URL cache.  The Engine side of a
\* render (pc.setSettings, then pc.renderPreview through callLatest) is kept as
\* an entry of renders that resolves or rejects at any later time.

CacheHas(cache, key) == \E n \in DOMAIN cache : cache[n].key = key

CacheGet(cache, key) ==
    IF CacheHas(cache, key)
    THEN (CHOOSE e \in {cache[n] : n \in DOMAIN cache} : e.key = key).url
    ELSE 0

CacheDelete(cache, key) == SelectSeq(cache, LAMBDA e : e.key # key)

CacheValues(cache) == {cache[n].url : n \in DOMAIN cache}

\* mutant: the entry at the most-recently-used end is the one evicted
RECURSIVE EvictNewest(_, _, _)
EvictNewest(cache, current, revoked) ==
    IF Len(cache) > PREVIEW_CACHE_LIMIT
    THEN LET newestUrl == cache[Len(cache)].url
             rest == SubSeq(cache, 1, Len(cache) - 1)
         IN  EvictNewest(rest, current,
                IF newestUrl # current /\ newestUrl \notin CacheValues(rest)
                THEN Append(revoked, newestUrl)
                ELSE revoked)
    ELSE [cache |-> cache, revoked |-> revoked]

\* mutant: an evicted URL is revoked without asking whether another key holds it
RECURSIVE EvictOldestIgnoreAliases(_, _, _)
EvictOldestIgnoreAliases(cache, current, revoked) ==
    IF Len(cache) > PREVIEW_CACHE_LIMIT
    THEN LET oldestUrl == Head(cache).url
             rest == Tail(cache)
         IN  EvictOldestIgnoreAliases(rest, current,
                IF oldestUrl # current
                THEN Append(revoked, oldestUrl)
                ELSE revoked)
    ELSE [cache |-> cache, revoked |-> revoked]

\* mutant: the evicted entries are dropped and no URL is revoked
RECURSIVE EvictOldestNoRevoke(_, _, _)
EvictOldestNoRevoke(cache, current, revoked) ==
    IF Len(cache) > PREVIEW_CACHE_LIMIT
    THEN EvictOldestNoRevoke(Tail(cache), current, revoked)
    ELSE [cache |-> cache, revoked |-> revoked]

\* the while loop of cachePreviewUrl; revoked collects the revokeObjectURL calls
RECURSIVE EvictOldest(_, _, _)
EvictOldest(cache, current, revoked) ==
    IF Len(cache) > PREVIEW_CACHE_LIMIT
    THEN LET oldestUrl == Head(cache).url
             rest == Tail(cache)
         IN  EvictOldest(rest, current,
                IF oldestUrl # current /\ oldestUrl \notin CacheValues(rest)
                THEN Append(revoked, oldestUrl)
                ELSE revoked)
    ELSE [cache |-> cache, revoked |-> revoked]

cachePreviewUrl(cache, current, previewKey, url) ==
    EvictOldest(Append(CacheDelete(cache, previewKey), [key |-> previewKey, url |-> url]),
                current, <<>>)

\* mutant: a hit returns the URL without re-inserting the entry
getCachedPreviewUrlNoRefresh(cache, previewKey) == cache

\* the Map after getCachedPreviewUrl(previewKey); its result is CacheGet
getCachedPreviewUrl(cache, previewKey) ==
    IF CacheGet(cache, previewKey) = 0
    THEN cache
    ELSE Append(CacheDelete(cache, previewKey),
                [key |-> previewKey, url |-> CacheGet(cache, previewKey)])

\* URL.revokeObjectURL on each element of a sequence of URLs
Revoke(count, urls) ==
    [u \in Urls |-> count[u] + Cardinality({n \in DOMAIN urls : urls[n] = u})]

\* client.cancelLatest('preview-render-' + q) for each q of qualities: the
\* pc.renderPreview call of the slot is aborted and its handleRenderPreview
\* is left to resume with LatestCallCancelledError
cancelLatestRenders(rs, qualities) ==
    {IF r.stage = "render" /\ r.key[2] \in qualities
     THEN [r EXCEPT !.stage = "cancelled"]
     ELSE r : r \in rs}

\* a handler has left quality in pendingPreviewQualityRef and the settings
\* now hash to previewKey; the preview effect runs and starts handleRenderPreview,
\* whose request carries buildPcSettings of this render.
\* ready: an image is loaded and a template is selected.
\* The effect runs when previewDepsHash has changed, and the cleanup the
\* previous run returned (it returned one if it found the App ready) runs first.
PreviewEffect(previewKey, quality, ready) ==
    /\ mounted
    /\ previewGeneration < MaxGenerations
    /\ previewKey # currentKey \/ ready # isReady
    /\ currentKey' = previewKey
    /\ isReady' = ready
    /\ LET inFlight == IF isReady \/ ~ready
                       THEN cancelLatestRenders(renders, Qualities)
                       ELSE renders
       IN IF ~ready
          THEN /\ pendingPreviewQuality' = quality
               /\ renders' = inFlight
               /\ UNCHANGED <<mounted, previewCache, currentBlobUrl, previewGeneration,
                              nextUrl, revokeCount, cacheOp>>
          ELSE LET cacheKey == <<previewKey, quality>>
                   cached == CacheGet(previewCache, cacheKey)
               IN  /\ pendingPreviewQuality' = "final"
                   /\ previewGeneration' = previewGeneration + 1
                   /\ previewCache' = getCachedPreviewUrl(previewCache, cacheKey)
                   /\ IF cached # 0
                      THEN /\ currentBlobUrl' = cached
                           /\ renders' = inFlight
                      ELSE /\ renders' = inFlight \cup
                                   {[gen |-> previewGeneration + 1, key |-> cacheKey,
                                     maxDim |-> previewMaxDim, stage |-> "settings"]}
                           /\ UNCHANGED currentBlobUrl
                   /\ UNCHANGED <<mounted, nextUrl, revokeCount, cacheOp>>
    /\ UNCHANGED <<previewMaxDim, urlMaxDim, previewError>>
    /\ UNCHANGED exceptPreview

\* handleRenderPreview resumes after `await syncPcSettings(quality)` and calls
\* client.callLatest('pc.renderPreview', ..., 'preview-render-' + quality):
\* callLatest aborts the call that holds the slot
SettingsAnswered(r) ==
    /\ mounted
    /\ r \in renders
    /\ r.stage = "settings"
    /\ renders' = cancelLatestRenders(renders \ {r}, {r.key[2]})
                      \cup {[r EXCEPT !.stage = "render"]}
    /\ UNCHANGED <<mounted, previewCache, currentBlobUrl, previewGeneration, nextUrl,
                   revokeCount, cacheOp>>
    /\ UNCHANGED settingsVars
    /\ UNCHANGED exceptPreview

\* mutant: the previous URL is revoked without asking whether the cache holds it
RenderResolvedRevokePrevious(r) ==
    /\ mounted
    /\ r \in renders
    /\ r.stage = "render"
    /\ renders' = renders \ {r}
    /\ IF r.gen # previewGeneration
       THEN UNCHANGED <<previewCache, currentBlobUrl, nextUrl, revokeCount, urlMaxDim>>
       ELSE LET put == cachePreviewUrl(previewCache, currentBlobUrl, r.key, nextUrl)
                stale == IF currentBlobUrl # 0 THEN <<currentBlobUrl>> ELSE <<>>
            IN  /\ nextUrl' = nextUrl + 1
                /\ previewCache' = put.cache
                /\ currentBlobUrl' = nextUrl
                /\ urlMaxDim' = [urlMaxDim EXCEPT ![nextUrl] = r.maxDim]
                /\ revokeCount' = Revoke(revokeCount, put.revoked \o stale)
    /\ UNCHANGED <<mounted, previewGeneration, cacheOp>>
    /\ UNCHANGED <<currentKey, pendingPreviewQuality, isReady, previewMaxDim, previewError>>
    /\ UNCHANGED exceptPreview

\* handleRenderPreview resumes with the response of pc.renderPreview
RenderResolved(r) ==
    /\ mounted
    /\ r \in renders
    /\ r.stage = "render"
    /\ renders' = renders \ {r}
    /\ IF r.gen # previewGeneration
       THEN UNCHANGED <<previewCache, currentBlobUrl, nextUrl, revokeCount, urlMaxDim>>
       ELSE LET nextPreviewUrl == nextUrl
                put == cachePreviewUrl(previewCache, currentBlobUrl, r.key, nextPreviewUrl)
                previousUrl == currentBlobUrl
                stale == IF /\ previousUrl # 0
                            /\ previousUrl # nextPreviewUrl
                            /\ previousUrl \notin CacheValues(put.cache)
                         THEN <<previousUrl>>
                         ELSE <<>>
            IN  /\ nextUrl' = nextUrl + 1
                /\ previewCache' = put.cache
                /\ currentBlobUrl' = nextPreviewUrl
                /\ urlMaxDim' = [urlMaxDim EXCEPT ![nextPreviewUrl] = r.maxDim]
                /\ revokeCount' = Revoke(revokeCount, put.revoked \o stale)
    /\ UNCHANGED <<mounted, previewGeneration, cacheOp>>
    /\ UNCHANGED <<currentKey, pendingPreviewQuality, isReady, previewMaxDim, previewError>>
    /\ UNCHANGED exceptPreview

\* the errors an awaited call of handleRenderPreview rejects with:
\* LatestCallCancelledError, or any other (timeout, Engine error, worker error)
RenderErrors == {"cancelled", "rpc"}

\* the catch block of handleRenderPreview: the last handleRpcError call after it
catchBlock(r, error) ==
    IF error = "cancelled"
    THEN previewError
    ELSE [gen |-> r.gen, current |-> previewGeneration]

\* handleRenderPreview resumes with a rejection of pc.setSettings or
\* pc.renderPreview: LatestCallCancelledError if and only if the call was aborted
RenderRejected(r, error) ==
    /\ mounted
    /\ r \in renders
    /\ error = "cancelled" <=> r.stage = "cancelled"
    /\ renders' = renders \ {r}
    /\ previewError' = catchBlock(r, error)
    /\ UNCHANGED <<mounted, previewCache, currentBlobUrl, previewGeneration, nextUrl,
                   revokeCount, cacheOp>>
    /\ UNCHANGED <<currentKey, pendingPreviewQuality, isReady, previewMaxDim, urlMaxDim>>
    /\ UNCHANGED exceptPreview

\* the for loop of the mount effect's cleanup over cache.values(): the
\* revokeObjectURL calls it makes, skipping a URL already in the revoked Set
RECURSIVE RevokeCacheValues(_, _)
RevokeCacheValues(urls, calls) ==
    IF urls = <<>>
    THEN calls
    ELSE LET url == Head(urls)
             revoked == {calls[n] : n \in DOMAIN calls}
         IN  RevokeCacheValues(Tail(urls),
                IF url \in revoked THEN calls ELSE Append(calls, url))

\* mutant: the current URL is revoked without looking at the revoked Set
UnmountCleanupCurrentAlways(cache, current) ==
    LET calls == RevokeCacheValues([n \in DOMAIN cache |-> cache[n].url], <<>>)
    IN  IF current # 0 THEN Append(calls, current) ELSE calls

\* the revokeObjectURL calls of the whole cleanup
UnmountCleanup(cache, current) ==
    LET calls == RevokeCacheValues([n \in DOMAIN cache |-> cache[n].url], <<>>)
        revoked == {calls[n] : n \in DOMAIN calls}
    IN  IF current # 0 /\ current \notin revoked
        THEN Append(calls, current)
        ELSE calls

\* cleanup of the mount effect: every cached URL and the current one are revoked;
\* client.dispose() of the same teardown rejects what is still in flight
Unmount ==
    /\ mounted
    /\ mounted' = FALSE
    /\ revokeCount' = Revoke(revokeCount, UnmountCleanup(previewCache, currentBlobUrl))
    /\ renders' = {}
    /\ UNCHANGED <<previewCache, currentBlobUrl, previewGeneration, nextUrl, cacheOp>>
    /\ UNCHANGED settingsVars
    /\ UNCHANGED exceptPreview

NextPreview ==
    \/ \E k \in 1..MaxPreviewKeys, q \in Qualities, ready \in BOOLEAN : PreviewEffect(k, q, ready)
    \/ \E r \in renders : SettingsAnswered(r)
    \/ \E r \in renders : RenderResolved(r)
    \/ \E r \in renders, error \in RenderErrors : RenderRejected(r, error)
    \/ Unmount

InitPreviewSpec ==
    /\ Init
    /\ worker = "ok"

SpecPreview == InitPreviewSpec /\ [][NextPreview]_vars

----------------------------------------------------------------------------
\* App: the settings behind the preview.  Spec SpecSettings adds to the
\* pipeline the two ways settings change that the fingerprint does not follow.

\* onPreviewMaxDimChange of AdvancedPanel: previewMaxDim is no key of the
\* object previewDepsHash serialises, so the preview effect does not run.
\* The user raises the value, up to MaxPreviewMaxDim.
SetPreviewMaxDim(nextValue) ==
    /\ mounted
    /\ nextValue > previewMaxDim
    /\ previewMaxDim' = nextValue
    /\ UNCHANGED <<currentKey, pendingPreviewQuality, isReady, urlMaxDim, previewError>>
    /\ UNCHANGED cacheVars
    /\ UNCHANGED exceptPreview

\* onChange of BorderPanel / DitherPanel with options.previewQuality = quality,
\* for a value whose settings hash to previewKey, then the render that follows:
\* the preview effect runs only if previewDepsHash changed
PanelUpdate(previewKey, quality) ==
    /\ isReady
    /\ IF previewKey = currentKey
       THEN /\ mounted
            /\ pendingPreviewQuality' = quality
            /\ UNCHANGED <<currentKey, isReady, previewMaxDim, urlMaxDim, previewError>>
            /\ UNCHANGED cacheVars
            /\ UNCHANGED exceptPreview
       ELSE PreviewEffect(previewKey, quality, TRUE)

NextSettings ==
    \/ NextPreview
    \/ \E v \in 1..MaxPreviewMaxDim : SetPreviewMaxDim(v)
    \/ \E k \in 1..MaxPreviewKeys, q \in Qualities : PanelUpdate(k, q)

SpecSettings == InitPreviewSpec /\ [][NextSettings]_vars

----------------------------------------------------------------------------
\* The cache functions on their own: cachePreviewUrl and getCachedPreviewUrl
\* applied to any key and any live URL, for any value of the current pointer.

\* cachePreviewUrl(previewKey, url)
CachePut(previewKey, url) ==
    /\ mounted
    /\ revokeCount[url] = 0
    /\ LET put == cachePreviewUrl(previewCache, currentBlobUrl, previewKey, url)
       IN  /\ previewCache' = put.cache
           /\ revokeCount' = Revoke(revokeCount, put.revoked)
           /\ cacheOp' = [op |-> "put", key |-> previewKey, url |-> url,
                          present |-> CacheHas(previewCache, previewKey),
                          evicted |-> Len(CacheDelete(previewCache, previewKey)) + 1
                                      - Len(put.cache),
                          afterPut |-> FALSE]
    /\ UNCHANGED <<mounted, currentBlobUrl, previewGeneration, renders, nextUrl>>
    /\ UNCHANGED settingsVars
    /\ UNCHANGED exceptPreview

\* getCachedPreviewUrl(previewKey)
CacheLookup(previewKey) ==
    /\ mounted
    /\ previewCache' = getCachedPreviewUrl(previewCache, previewKey)
    /\ cacheOp' = [op |-> "get", key |-> previewKey,
                   url |-> CacheGet(previewCache, previewKey),
                   present |-> CacheHas(previewCache, previewKey),
                   evicted |-> 0,
                   afterPut |-> cacheOp.op = "put" /\ cacheOp.key = previewKey]
    /\ UNCHANGED <<mounted, currentBlobUrl, previewGeneration, renders, nextUrl, revokeCount>>
    /\ UNCHANGED settingsVars
    /\ UNCHANGED exceptPreview

NextCache ==
    \/ \E k \in DirectKeys, u \in Handles : CachePut(k, u)
    \/ \E k \in DirectKeys : CacheLookup(k)
    \/ Unmount

\* as Init, with the current pointer on any URL or null
InitCache ==
    /\ \E current \in {0} \cup Handles : InitPreviewWith(current)
    /\ InitClient
    /\ InitSlider
    /\ InitLayout
    /\ InitFingerprint
    /\ worker = "ok"

SpecCache == InitCache /\ [][NextCache]_vars

----------------------------------------------------------------------------
\* useSliderCommit.  An input event, a timer callback and an external value
\* update each run as one task at the current clock value; a timer callback
\* runs at or after its due time.

Max(a, b) == IF a >= b THEN a ELSE b

\* the refs and logs a handler threads through its calls
Slider == [lastFastAt |-> lastFastAt, idleTimer |-> idleTimer,
           trailingFastTimer |-> trailingFastTimer, fastLog |-> fastLog,
           finalLog |-> finalLog, finalsSinceChange |-> finalsSinceChange]

SetSlider(sl) ==
    /\ lastFastAt' = sl.lastFastAt
    /\ idleTimer' = sl.idleTimer
    /\ trailingFastTimer' = sl.trailingFastTimer
    /\ fastLog' = sl.fastLog
    /\ finalLog' = sl.finalLog
    /\ finalsSinceChange' = sl.finalsSinceChange

clearIdleTimer(sl) == [sl EXCEPT !.idleTimer = NoTimer]

\* clearTrailingFastTimer leaving the timer armed
clearTrailingFastTimerNot(sl) == sl

clearTrailingFastTimer(sl) == [sl EXCEPT !.trailingFastTimer = NoTimer]

onFast(sl, v) == [sl EXCEPT !.fastLog = Append(@, [at |-> now, value |-> v])]

onFinal(sl, v) ==
    [sl EXCEPT !.finalLog = Append(@, [at |-> now, value |-> v]),
               !.finalsSinceChange = @ + 1]

scheduleIdleFinal(sl) == [clearIdleTimer(sl) EXCEPT !.idleTimer = now + idleFinalMs]

\* mutant: an immediate emission leaves an armed trailing timer in place
emitFastThrottledKeepTrailing(sl, nextValue) ==
    LET elapsed == now - sl.lastFastAt
    IN  IF elapsed >= throttleMs
        THEN onFast([sl EXCEPT !.lastFastAt = now], nextValue)
        ELSE [clearTrailingFastTimer(sl) EXCEPT
                !.trailingFastTimer = now + Max(0, throttleMs - elapsed)]

emitFastThrottled(sl, nextValue) ==
    LET elapsed == now - sl.lastFastAt
    IN  IF elapsed >= throttleMs
        THEN clearTrailingFastTimer(onFast([sl EXCEPT !.lastFastAt = now], nextValue))
        ELSE [clearTrailingFastTimer(sl) EXCEPT
                !.trailingFastTimer = now + Max(0, throttleMs - elapsed)]

\* the trailing timer's callback emitting the value of the last fast update
\* again instead of the latest value
trailingFastCallbackStale(sl, latest) ==
    clearTrailingFastTimer(onFast([sl EXCEPT !.lastFastAt = now],
                                  IF sl.fastLog # <<>> THEN sl.fastLog[Len(sl.fastLog)].value
                                  ELSE 0))

\* the trailing timer's callback; latest is latestValueRef.current
trailingFastCallback(sl, latest) ==
    clearTrailingFastTimer(onFast([sl EXCEPT !.lastFastAt = now], latest))

\* an input event or external update can still be taken; a timer armed now
\* comes due before the clock stops
UserEventAllowed ==
    /\ sliderMounted
    /\ userEvents < MaxUserEvents
    /\ now + idleFinalMs <= MaxTime

\* onChange with event.target.value = nextValue
SliderChange(nextValue) ==
    /\ UserEventAllowed
    /\ nextValue # latestValue
    /\ userEvents' = userEvents + 1
    /\ latestValue' = nextValue
    /\ sliderChanges' = sliderChanges + 1
    /\ lastInput' = [changed |-> nextValue, set |-> nextValue]
    /\ LET changed == [Slider EXCEPT !.finalsSinceChange = 0]
           emitted == IF dragging THEN emitFastThrottled(changed, nextValue) ELSE changed
       IN  SetSlider(scheduleIdleFinal(emitted))
    /\ UNCHANGED <<now, sliderMounted, dragging>>
    /\ UNCHANGED exceptSlider

\* setValueFromExternal(nextValue): the initialValue prop changed
SetValueFromExternal(nextValue) ==
    /\ UserEventAllowed
    /\ nextValue # latestValue
    /\ userEvents' = userEvents + 1
    /\ latestValue' = nextValue
    /\ lastInput' = [lastInput EXCEPT !.set = nextValue]
    /\ UNCHANGED <<now, sliderMounted, dragging, lastFastAt, idleTimer, trailingFastTimer,
                   fastLog, finalLog, sliderChanges, finalsSinceChange>>
    /\ UNCHANGED exceptSlider

SliderPointerDown ==
    /\ UserEventAllowed
    /\ userEvents' = userEvents + 1
    /\ dragging' = TRUE
    /\ SetSlider(clearIdleTimer(Slider))
    /\ UNCHANGED <<now, sliderMounted, latestValue, sliderChanges, lastInput>>
    /\ UNCHANGED exceptSlider

SliderPointerUp ==
    /\ UserEventAllowed
    /\ userEvents' = userEvents + 1
    /\ IF ~dragging
       THEN UNCHANGED <<dragging, lastFastAt, idleTimer, trailingFastTimer, fastLog,
                        finalLog, finalsSinceChange>>
       ELSE /\ dragging' = FALSE
            /\ SetSlider(onFinal(clearIdleTimer(clearTrailingFastTimer(Slider)), latestValue))
    /\ UNCHANGED <<now, sliderMounted, latestValue, sliderChanges, lastInput>>
    /\ UNCHANGED exceptSlider

SliderBlur ==
    /\ UserEventAllowed
    /\ userEvents' = userEvents + 1
    /\ dragging' = FALSE
    /\ SetSlider(onFinal(clearIdleTimer(clearTrailingFastTimer(Slider)), latestValue))
    /\ UNCHANGED <<now, sliderMounted, latestValue, sliderChanges, lastInput>>
    /\ UNCHANGED exceptSlider

\* the callback of scheduleIdleFinal's timer; the ref keeps the spent timer's
\* id, which no later clearTimeout can act on
IdleTimerFires ==
    /\ idleTimer # NoTimer
    /\ now >= idleTimer
    /\ SetSlider(IF ~dragging
                 THEN onFinal(clearIdleTimer(Slider), latestValue)
                 ELSE clearIdleTimer(Slider))
    /\ UNCHANGED <<now, sliderMounted, dragging, latestValue, userEvents, sliderChanges,
                   lastInput>>
    /\ UNCHANGED exceptSlider

\* the callback of emitFastThrottled's trailing timer
TrailingFastTimerFires ==
    /\ trailingFastTimer # NoTimer
    /\ now >= trailingFastTimer
    /\ SetSlider(trailingFastCallback(Slider, latestValue))
    /\ UNCHANGED <<now, sliderMounted, dragging, latestValue, userEvents, sliderChanges,
                   lastInput>>
    /\ UNCHANGED exceptSlider

\* cleanup of the hook's mount effect
SliderUnmount ==
    /\ sliderMounted
    /\ sliderMounted' = FALSE
    /\ SetSlider(clearTrailingFastTimer(clearIdleTimer(Slider)))
    /\ UNCHANGED <<now, dragging, latestValue, userEvents, sliderChanges, lastInput>>
    /\ UNCHANGED exceptSlider

\* the clock advances
Tick ==
    /\ now < MaxTime
    /\ now' = now + 1
    /\ UNCHANGED <<sliderMounted, dragging, lastFastAt, idleTimer, trailingFastTimer,
                   latestValue, userEvents, fastLog, finalLog, sliderChanges,
                   finalsSinceChange, lastInput>>
    /\ UNCHANGED exceptSlider

NextSlider ==
    \/ \E v \in SliderValues : SliderChange(v)
    \/ \E v \in SliderValues : SetValueFromExternal(v)
    \/ SliderPointerDown
    \/ SliderPointerUp
    \/ SliderBlur
    \/ IdleTimerFires
    \/ TrailingFastTimerFires
    \/ SliderUnmount
    \/ Tick

InitSliderSpec ==
    /\ Init
    /\ worker = "ok"

SpecSlider == InitSliderSpec /\ [][NextSlider]_vars

\* timers that are due fire and the clock advances; input events are up to the user
SpecSliderLive ==
    /\ SpecSlider
    /\ WF_vars(Tick)
    /\ WF_vars(IdleTimerFires)
    /\ WF_vars(TrailingFastTimerFires)

----------------------------------------------------------------------------
\* Claims about PyWorkerClient

Issued(i) == callInfo[i].via # "unissued"

ViaLatest(i) == callInfo[i].via = "latest"

\* pending.set(id, ...) ran for call i
Registered(i) == Issued(i) /\ ~callInfo[i].preAborted

\* the callLatest promise of call i has settled
LatestSettled(i) == ViaLatest(i) /\ i \in latestDone

\* C1: in a run of callLatest calls on one key (no dispose in between), a call
\* fulfils with the engine result only if no later callLatest was issued on its
\* key before it settled, and every call that a later callLatest overtook while
\* it was unsettled rejects with LatestCallCancelledError, whenever its own
\* response arrives.
C1_LatestWins ==
    \A i \in Ids :
        (ViaLatest(i) /\ "dispose" \notin touch[i]) =>
            /\ latestOutcome[i] = "value" => "newer" \notin touch[i]
            /\ "newer" \in touch[i] => latestOutcome[i] \in {"none", "cancelled"}

\* A (slow) was overtaken by B (fast): B delivered, A cancelled, A's response dropped
C1_Witness ==
    \E a, b \in Ids :
        /\ a < b
        /\ ViaLatest(a) /\ ViaLatest(b)
        /\ callInfo[a].key = callInfo[b].key
        /\ touch[a] = {"newer"}
        /\ latestOutcome[b] = "value" /\ LatestSettled(b)
        /\ latestOutcome[a] = "cancelled" /\ LatestSettled(a)
        /\ a \in dropped

\* C2: a callLatest call that cancelLatest(key) found unsettled rejects with
\* LatestCallCancelledError and never receives its engine response.
C2_CancelSupersedes ==
    \A i \in Ids :
        (ViaLatest(i) /\ "cancel" \in touch[i]) =>
            latestOutcome[i] \in {"none", "cancelled"}

\* C3 as claimed: no continuation of a registered call is invoked a second time
\* (client with a constructed worker).
C3_SettlesOnce ==
    worker = "ok" => \A i \in Ids : Registered(i) => Len(invoked[i]) <= 1

\* C3 as amended: the first invocation decides the outcome for good; response,
\* worker error and dispose never reach a settled call of a constructed worker;
\* a later invocation is the abort listener's reject (or, when the worker failed
\* to construct and the entry stayed registered, the timer's or dispose's).
C3_LateInvocations ==
    \A i \in Ids :
        Registered(i) =>
            \A n \in 2..Len(invoked[i]) :
                \/ invoked[i][n] = "abort"
                \/ worker = "null" /\ invoked[i][n] \in {"timeout", "disposed"}

C3_OutcomeKept ==
    \A i \in Ids :
        Outcome(invoked, i) # "none" => Outcome(invoked', i) = Outcome(invoked, i)

C3_SettlesOnceAmended == []C3_LateInvocations /\ [][C3_OutcomeKept]_vars

\* a response settled the call, a later abort of its signal called reject again
C3_Witness ==
    \E i \in Ids : Registered(i) /\ worker = "ok" /\ invoked[i] = <<"value", "abort">>

\* C4: a callLatest call that no later callLatest, cancelLatest or dispose
\* touched before it settled is never rejected with LatestCallCancelledError:
\* it settles exactly as the underlying call did.
C4_CurrentDelivered ==
    \A i \in Ids :
        (ViaLatest(i) /\ latestOutcome[i] # "none" /\ touch[i] = {}) =>
            /\ latestOutcome[i] = Outcome(invoked, i)
            /\ latestOutcome[i] \in {"value", "timeout", "rpcError", "workerError", "startupError"}

C4_Witness ==
    \E i, j \in Ids :
        /\ i # j
        /\ LatestSettled(i) /\ touch[i] = {} /\ latestOutcome[i] = "value"
        /\ LatestSettled(j) /\ touch[j] = {} /\ latestOutcome[j] = "timeout"

\* what call i looks like to its caller and to the registry
CallState(i) ==
    <<i \in pending, i \in timers, i \in listeners, invoked[i], latestOutcome[i],
      i \in latestDone, i \in abortedControllers, i \in posted>>

\* C5: callLatest(.., k) and cancelLatest(k) change nothing outside slot k:
\* no other key's counter or controller, and no call issued on another key or
\* through plain call().
C5_Frame(k) ==
    /\ \A k2 \in Keys \ {k} :
        /\ latestCallCounters'[k2] = latestCallCounters[k2]
        /\ latestCallControllers'[k2] = latestCallControllers[k2]
    /\ \A i \in Ids :
        (Issued(i) /\ callInfo[i].key # k) => CallState(i)' = CallState(i)

C5_SlotFrame ==
    [][\A k \in Keys :
        ((\E t \in BOOLEAN : CallLatest(k, t)) \/ CancelLatest(k)) => C5_Frame(k)]_vars

\* a call on another key and a plain call are pending after an operation on a key
C5_Witness ==
    \E i, j \in Ids :
        /\ i < j
        /\ Issued(i) /\ i \in pending /\ invoked[i] = <<>>
        /\ ViaLatest(j) /\ callInfo[i].key # callInfo[j].key
        /\ cancels = 1
        /\ latestCallCounters[callInfo[j].key] = 2

\* C6: a timer that fires on an unsettled call removes it from the registry and
\* rejects it with the timeout error; a response that arrives afterwards
\* changes neither the promise nor the registry.
C6_Step ==
    \A i \in Ids :
        /\ (Timeout(i) /\ invoked[i] = <<>>) =>
                (i \notin pending' /\ invoked'[i] = <<"timeout">>)
        /\ \A ok \in BOOLEAN :
            (HandleMessage(i, ok) /\ Outcome(invoked, i) = "timeout") =>
                (invoked' = invoked /\ pending' = pending /\ i \in dropped')

C6_Timeout == [][C6_Step]_vars

C6_Witness ==
    \E i \in Ids : invoked[i] = <<"timeout">> /\ i \in dropped /\ i \notin pending

\* C7: call() with an already aborted signal rejects without posting a message
\* and without registering a pending entry.
C7_PreAborted ==
    \A i \in Ids :
        (Issued(i) /\ callInfo[i].preAborted) =>
            /\ i \notin posted
            /\ i \notin pending
            /\ Outcome(invoked, i) = "abort"

C7_Witness ==
    \E i \in Ids : Issued(i) /\ callInfo[i].preAborted /\ worker = "ok"

\* unsettled calls in the registry
Unsettled == {i \in pending : invoked[i] = <<>>}

\* C8 as claimed: dispose rejects every pending call, from call or callLatest,
\* with the disposal error.
C8_DisposeRejectsAll ==
    [][Dispose => \A i \in Unsettled : Outcome(invoked', i) = "disposed"]_vars

\* C8 as amended: dispose rejects every pending plain call with the disposal
\* error and every pending callLatest call through its aborted controller
\* (AbortError), empties the registry and detaches the worker; afterwards no
\* worker message or worker error settles anything.
C8_Step ==
    /\ Dispose =>
        /\ \A i \in Unsettled :
              invoked'[i] = <<IF ViaLatest(i) THEN "abort" ELSE "disposed">>
        /\ pending' = {}
        /\ ~attached'
    /\ (~attached /\ worker = "ok") =>
        \A i \in Ids :
            invoked'[i] # invoked[i] =>
                invoked'[i][Len(invoked'[i])] \notin {"value", "rpcError", "workerError"}

C8_DisposeAmended == [][C8_Step]_vars

C8_Witness ==
    \E i, j \in Ids :
        /\ worker = "ok" /\ ~attached
        /\ invoked[i] = <<"disposed">>
        /\ invoked[j] = <<"abort">> /\ "dispose" \in touch[j]
        /\ pending = {}

\* C9: a worker message whose id matches no pending call changes nothing: not
\* the registry, not a counter or controller, not a promise.
C9_Step ==
    \A i \in Ids, ok \in BOOLEAN :
        (HandleMessage(i, ok) /\ i \notin pending) =>
            UNCHANGED <<worker, attached, nextId, pending, timers, latestCallCounters,
                        latestCallControllers, abortedControllers, extAborted, listeners,
                        callInfo, invoked, latestOutcome, latestDone, posted, touch, cancels, exceptClient>>

C9_UnmatchedDropped == [][C9_Step]_vars

\* dropped: an unsolicited id, and a second message for a call already answered
C9_Witness ==
    \E i, j \in Ids :
        /\ i \in dropped /\ ~Issued(i)
        /\ j \in dropped /\ Outcome(invoked, j) = "value"

----------------------------------------------------------------------------
\* Claims about the preview cache

Revoked(u) == revokeCount[u] > 0

\* C23: a call whose promise has settled, for whatever reason, has no entry
\* in the pending registry and no armed timer.
C23_SettledLeavesNothing ==
    \A i \in Ids : invoked[i] # <<>> => (i \notin pending /\ i \notin timers)

\* C29: no step lowers the generation counter of a slot key.
C29_GenerationMonotonic ==
    [][\A k \in Keys : latestCallCounters'[k] >= latestCallCounters[k]]_vars

\* the callLatest calls on key k that have an entry in the pending registry
C30_PendingLatest(k) ==
    {i \in pending : callInfo[i].via = "latest" /\ callInfo[i].key = k}

\* the callLatest calls issued on key k so far
C30_IssuedLatest(k) == {i \in Ids : callInfo[i].via = "latest" /\ callInfo[i].key = k}

\* C30 (registry): every slot key has at most one callLatest call pending.
C30_OnePendingPerKey == \A k \in Keys : Cardinality(C30_PendingLatest(k)) <= 1

\* C30 (controller): the controller stored for a slot key is not aborted and
\* belongs to the most recently issued callLatest call on the key, whose
\* promise has not settled.
C30_ControllerOfNewest ==
    \A k \in Keys :
        LET c == latestCallControllers[k]
        IN  c # 0 =>
              /\ c \notin abortedControllers
              /\ c \in C30_IssuedLatest(k)
              /\ \A i \in C30_IssuedLatest(k) : i <= c
              /\ c \notin latestDone

\* C30: both parts together.
C30_SlotHoldsNewest == C30_OnePendingPerKey /\ C30_ControllerOfNewest

\* the calls issued so far, by call() or through callLatest()
C31_Issued == {i \in Ids : callInfo[i].via # "unissued"}

\* C31 as stated: with a worker that failed to construct, every call rejects
\* with the startup error, at once, and posts no message.
C31_StartupError ==
    worker = "null" =>
        \A i \in C31_Issued : Outcome(invoked, i) = "startupError" /\ i \notin posted

\* C31 as amended: with a worker that failed to construct, every call is
\* rejected by the time call() returns and posts no message; it rejects with
\* the startup error, on the first call as on every later one, unless its
\* signal was already aborted, and then with the abort error.
C31_StartupErrorAmended ==
    worker = "null" =>
        \A i \in C31_Issued :
            /\ Outcome(invoked, i) =
                   IF callInfo[i].preAborted THEN "abort" ELSE "startupError"
            /\ i \notin posted

\* two calls on a failed worker, the second with a timer that has not fired,
\* both rejected with the startup error
C31_Witness ==
    /\ worker = "null"
    /\ C31_Issued = {1, 2}
    /\ 2 \in timers
    /\ \A i \in C31_Issued : invoked[i] = <<"startupError">>

\* C32: a worker 'error' event rejects every call pending at that moment with
\* the transport error, disarms their timers and empties the registry, and
\* touches no other call; a failure response rejects the pending call with the
\* matching id with the RPC error, removes its entry and timer, and touches no
\* other call.
C32_Step ==
    /\ HandleWorkerError =>
          /\ \A i \in pending : invoked[i] = <<>> /\ invoked'[i] = <<"workerError">>
          /\ \A i \in Ids \ pending : invoked'[i] = invoked[i]
          /\ pending' = {}
          /\ timers' = timers \ pending
    /\ \A i \in pending :
          HandleMessage(i, FALSE) =>
              /\ invoked[i] = <<>> /\ invoked'[i] = <<"rpcError">>
              /\ \A j \in Ids \ {i} : invoked'[j] = invoked[j]
              /\ pending' = pending \ {i}
              /\ timers' = timers \ {i}

C32_ErrorsReject == [][C32_Step]_vars

\* one call rejected by a failure response, the other by a worker error
C32_Witness ==
    /\ invoked[1] = <<"rpcError">>
    /\ invoked[2] = <<"workerError">>
    /\ pending = {}
    /\ timers = {}

\* C10: while the pipeline is up, the URL the current pointer refers to is not
\* revoked, also after its cache entry was evicted, and no URL is revoked
\* while the cache map or the current pointer still refers to it.
C10_CurrentNotRevoked ==
    mounted =>
        /\ currentBlobUrl # 0 => ~Revoked(currentBlobUrl)
        /\ \A u \in Urls :
              Revoked(u) => (u # currentBlobUrl /\ u \notin CacheValues(previewCache))

\* the cache is full, an evicted URL was revoked and the displayed one is live
C10_Witness ==
    /\ mounted
    /\ Len(previewCache) = PREVIEW_CACHE_LIMIT
    /\ currentBlobUrl # 0
    /\ ~Revoked(currentBlobUrl)
    /\ \E u \in Urls : Revoked(u)

C38_CurrentIsNewest ==
    (mounted /\ currentBlobUrl # 0) =>
        /\ previewCache # <<>>
        /\ previewCache[Len(previewCache)].url = currentBlobUrl
        /\ PREVIEW_CACHE_LIMIT >= 2 =>
              \A k \in CacheKeys, u \in Urls :
                  ~CacheHas(previewCache, k) =>
                      currentBlobUrl \in
                          CacheValues(cachePreviewUrl(previewCache, currentBlobUrl, k, u).cache)

\* a cache hit displayed the URL of an entry that was the oldest of a full cache
C38_Witness ==
    /\ mounted
    /\ Len(previewCache) = PREVIEW_CACHE_LIMIT
    /\ currentBlobUrl # 0
    /\ currentBlobUrl < previewCache[1].url
    /\ previewCache[Len(previewCache)].url = currentBlobUrl

\* with no image loaded or no template selected, no pc.renderPreview call
\* holds a preview slot
C36_SlotsIdle ==
    (mounted /\ ~isReady) => \A r \in renders : r.stage # "render"

\* in that condition no pc.renderPreview call is made and no response is displayed
C36_Step ==
    ~isReady =>
        /\ \A r \in renders : ~SettingsAnswered(r)
        /\ ~isReady' => currentBlobUrl' = currentBlobUrl

\* C36: while no image is loaded or no template is selected the App makes no
\* pc.renderPreview call, the calls that held a preview slot when the condition
\* began are cancelled, and no response is displayed.
C36_NoPreviewWhenNotReady == []C36_SlotsIdle /\ [][C36_Step]_vars

\* what the preview of the current settings shows: the URL cached for the
\* current fingerprint, in one of the two qualities
C39_DisplayedCurrent ==
    /\ currentBlobUrl # 0
    /\ \E q \in Qualities : CacheGet(previewCache, <<currentKey, q>>) = currentBlobUrl

\* the Engine has answered every request, none with an error, and an image
\* and a template are selected: nothing more happens until the settings change
C39_Settled ==
    /\ mounted
    /\ isReady
    /\ renders = {}
    /\ previewError.gen = 0

\* callLatest of a run of handleRenderPreview aborts no call of a newer generation
C39_Step ==
    \A r \in renders :
        SettingsAnswered(r) =>
            \A newer \in renders :
                (newer.stage = "render" /\ newer.key[2] = r.key[2]) => newer.gen < r.gen

\* C39: once every request has been answered and the settings rest with an
\* image and a template selected, the preview displayed is the one of the
\* current fingerprint; and no request of an older preview generation cancels
\* the request of a newer one.
C39_Converges == [](C39_Settled => C39_DisplayedCurrent) /\ [][C39_Step]_vars

\* C11: immediately after cachePreviewUrl(k, h), getCachedPreviewUrl(k)
\* returns h, whatever the cache held before: also when k was already present
\* and when the put evicted an entry.
C11_Step ==
    \A k \in DirectKeys :
        (cacheOp.op = "put" /\ cacheOp.key = k /\ CacheLookup(k)) =>
            cacheOp'.url = cacheOp.url

C11_RoundTrip == [][C11_Step]_vars

\* a get that follows a put which filled the cache and evicted an entry
C11_Witness ==
    /\ cacheOp.op = "get" /\ cacheOp.afterPut /\ cacheOp.url # 0
    /\ Len(previewCache) = PREVIEW_CACHE_LIMIT
    /\ \E u \in Urls : Revoked(u)

\* The reference LRU map of the claim: order lists the keys from least to most
\* recently used, map gives each key its value (0 when absent).
LruRemove(order, k) == SelectSeq(order, LAMBDA x : x # k)

LruPut(lru, k, u) ==
    LET order == Append(LruRemove(lru.order, k), k)
        map == [lru.map EXCEPT ![k] = u]
    IN  IF Len(order) > PREVIEW_CACHE_LIMIT
        THEN [order |-> Tail(order), map |-> [map EXCEPT ![Head(order)] = 0]]
        ELSE [order |-> order, map |-> map]

LruGet(lru, k) ==
    IF lru.map[k] = 0
    THEN [lru |-> lru, result |-> 0]
    ELSE [lru |-> [order |-> Append(LruRemove(lru.order, k), k), map |-> lru.map],
          result |-> lru.map[k]]

\* the LRU map that a state of previewCacheRef stands for
LruOf(cache) ==
    [order |-> [n \in DOMAIN cache |-> cache[n].key],
     map |-> [k \in DirectKeys |-> CacheGet(cache, k)]]

\* C12: every put and get on the preview cache is the put or get of a
\* reference LRU map of capacity PREVIEW_CACHE_LIMIT: the size never exceeds
\* the limit, a put and a successful get make the key most recently used, the
\* entry evicted on overflow is the least recently used one and get reports it
\* absent afterwards.
C12_Step ==
    LET k == cacheOp'.key
        u == cacheOp'.url
        before == LruOf(previewCache)
        after == LruOf(previewCache')
    IN  /\ (cacheOp'.op = "put" /\ CachePut(k, u)) =>
              /\ after = LruPut(before, k, u)
              /\ Len(previewCache') <= PREVIEW_CACHE_LIMIT
        /\ (cacheOp'.op = "get" /\ CacheLookup(k)) =>
              /\ after = LruGet(before, k).lru
              /\ u = LruGet(before, k).result

C12_RefinesLru == [][C12_Step]_vars

\* after an overflow that revoked the evicted URL, a get reported a key absent
C12_Witness ==
    /\ cacheOp.op = "get" /\ ~cacheOp.present /\ cacheOp.url = 0
    /\ Len(previewCache) = PREVIEW_CACHE_LIMIT
    /\ \E u \in Urls : Revoked(u)

\* C13: an eviction revokes the evicted URL only if no key still in the cache
\* maps to that URL and the current pointer does not reference it.
C13_Step ==
    \A k \in DirectKeys, h \in Handles :
        (cacheOp'.key = k /\ cacheOp'.url = h /\ CachePut(k, h)) =>
            \A u \in Urls :
                revokeCount'[u] # revokeCount[u] =>
                    /\ u \notin CacheValues(previewCache')
                    /\ u # currentBlobUrl

C13_ReleaseByHandle == [][C13_Step]_vars

\* an entry was evicted whose URL another key still holds: nothing was revoked
C13_Witness ==
    /\ cacheOp.op = "put" /\ cacheOp.evicted = 1
    /\ currentBlobUrl = 0
    /\ \A u \in Urls : ~Revoked(u)

\* URLs the cache map or the current pointer refer to
Held == CacheValues(previewCache) \cup ({currentBlobUrl} \ {0})

\* C14: the teardown revokes every URL that the cache or the current pointer
\* holds, each exactly once, and no other URL.
C14_Step ==
    Unmount =>
        \A u \in Urls :
            revokeCount'[u] = IF u \in Held THEN 1 ELSE revokeCount[u]

C14_TeardownRevokesOnce == [][C14_Step]_vars

\* torn down with one URL under two keys that was also the current one
C14_Witness ==
    /\ ~mounted
    /\ Len(previewCache) = 2
    /\ previewCache[1].url = previewCache[2].url
    /\ currentBlobUrl = previewCache[1].url
    /\ revokeCount[currentBlobUrl] = 1

----------------------------------------------------------------------------
\* Claims about the preview requests

\* C22: when a preview request of a superseded generation completes, with a
\* value or with an error of any kind, nothing the user sees changes: not the
\* displayed URL, not the cache, not a URL's lifetime, not the error message.
C22_Step ==
    \A r \in renders :
        (/\ r.gen # previewGeneration
         /\ \/ RenderResolved(r)
            \/ \E error \in RenderErrors : RenderRejected(r, error))
        => UNCHANGED <<previewCache, currentBlobUrl, urlMaxDim, revokeCount, previewError>>

C22_SupersededSilent == [][C22_Step]_vars

\* C24: a cache hit displays a URL whose request carried the previewMaxDim of
\* the current settings (the one render-affecting field of buildPcSettings
\* that previewDepsHash and the cache key leave out).
C24_Step ==
    \A k \in 1..MaxPreviewKeys, q \in Qualities :
        (PreviewEffect(k, q, TRUE) /\ CacheHas(previewCache, <<k, q>>))
        => urlMaxDim[currentBlobUrl'] = previewMaxDim

C24_HitMatchesSettings == [][C24_Step]_vars

\* C25: once a slider's final update has been handled, a final-quality
\* preview for the resulting settings is requested or served from the cache
\* with an image loaded and a template selected: the preview of the current
\* settings, in one quality, is awaited or displayed.
C25_PreviewFor(k, q) ==
    \/ \E r \in renders : r.key = <<k, q>> /\ r.gen = previewGeneration
    \/ currentBlobUrl # 0 /\ CacheGet(previewCache, <<k, q>>) = currentBlobUrl

C25_Step ==
    \A k \in 1..MaxPreviewKeys :
        ((\E q \in Qualities : C25_PreviewFor(currentKey, q)) /\ PanelUpdate(k, "final"))
        => C25_PreviewFor(k, "final")'

C25_FinalRequested == [][C25_Step]_vars

----------------------------------------------------------------------------
\* Claims about useSliderCommit

\* C15: any two consecutive fast updates are at least throttleMs apart,
\* whatever the timing of the value changes and however late a timer runs.
C15_FastThrottled ==
    \A n \in 1..(Len(fastLog) - 1) : fastLog[n + 1].at - fastLog[n].at >= throttleMs

\* three changes in one drag gave two fast updates, exactly one window apart
C15_Witness ==
    /\ sliderChanges = 3
    /\ Len(fastLog) = 2
    /\ fastLog[2].at - fastLog[1].at = throttleMs

\* C16: after a change, at most one final update is emitted until the next
\* change: a settle event (pointer-up, blur, idle timeout) that follows a final
\* update without a change in between emits no further final update.
C16_OneFinalPerSettle == sliderChanges > 0 => finalsSinceChange <= 1

\* a change that no final update has followed
Unfinalised == sliderMounted /\ sliderChanges > 0 /\ finalsSinceChange = 0

\* C17: when timers fire and the component stays mounted, every change is
\* eventually followed by a final update.
C17_FinalEventually == Unfinalised ~> ~Unfinalised

\* the step emits exactly one final update, carrying the latest value, and
\* leaves the slider idle
C26_EmitsOneFinal ==
    /\ finalLog' = Append(finalLog, [at |-> now, value |-> latestValue])
    /\ ~dragging'

\* C26: a pointer-up while dragging, a blur and an expiring idle timer each
\* emit exactly one final update with the latest value and leave the slider
\* idle, also when the idle timer expires while dragging.
C26_Step ==
    /\ (dragging /\ SliderPointerUp) => C26_EmitsOneFinal
    /\ SliderBlur => C26_EmitsOneFinal
    /\ IdleTimerFires => C26_EmitsOneFinal

C26_SettleEmitsFinal == [][C26_Step]_vars

\* C27 as stated: the fast update of the trailing timer carries the value of
\* the last change.
C27_TrailingCarriesLastChange ==
    [][TrailingFastTimerFires =>
         fastLog' = Append(fastLog, [at |-> now, value |-> lastInput.changed])]_vars

\* C27: the trailing timer emits a single fast update, carrying the value
\* most recently given to the hook before it fires, by a change or by an
\* external value update, whichever came last.
C27_TrailingCarriesLatest ==
    [][TrailingFastTimerFires =>
         fastLog' = Append(fastLog, [at |-> now, value |-> lastInput.set])]_vars

\* two changes (0 -> 1 -> 0) while dragging, and the only fast update was
\* emitted after the second one, by the trailing timer, with its value
C27_Witness ==
    /\ dragging
    /\ sliderChanges = 2
    /\ lastInput = [changed |-> 0, set |-> 0]
    /\ idleTimer # NoTimer
    /\ Len(fastLog) = 1
    /\ fastLog[1].value = 0
    /\ fastLog[1].at > idleTimer - idleFinalMs

\* C28: a step that emits a final update leaves the slider not dragging and
\* without a trailing fast timer; a step emits a fast update only while
\* dragging; dragging starts only with a pointer-down.  So no fast update
\* follows a final update before the next pointer-down.
C28_Step ==
    /\ finalLog' # finalLog => ~dragging' /\ trailingFastTimer' = NoTimer
    /\ ~dragging => trailingFastTimer = NoTimer
    /\ fastLog' # fastLog => dragging
    /\ (~dragging /\ dragging') => SliderPointerDown

C28_NoFastAfterFinal == [][C28_Step]_vars

\* a fast update, then a final update that ended the drag, then a change
\* while not dragging that emitted nothing
C28_Witness ==
    /\ ~dragging
    /\ Len(fastLog) = 1
    /\ Len(finalLog) = 1
    /\ finalLog[1].at >= fastLog[1].at
    /\ sliderChanges = 2
    /\ finalsSinceChange = 0

----------------------------------------------------------------------------
\* Part 4: template selection in App and CanvasLayoutPanel.
\*
\* Each handler runs to its next await as one step; a response or a failure
\* of the awaited Engine call runs the rest of the handler.  The panel renders
\* after every step: its text-sync effects run, and an input that is no longer
\* rendered loses the focus without a blur event.

Min(a, b) == IF a <= b THEN a ELSE b

\* clampToRange without the upper limit
clampToRangeNoUpper(value, range) == Max(range.min, value)

\* values are integers here, so Number.isFinite holds and Math.floor changes nothing
clampToRange(value, range) == Max(range.min, Min(range.max, value))

isInRange(value, range) == value >= range.min /\ value <= range.max

\* /^\d+$/
AllDigits(text) ==
    /\ text # <<>>
    /\ \A i \in 1..Len(text) : \E d \in 1..Len(DigitChars) : text[i] = DigitChars[d]

DigitValue(char) == (CHOOSE d \in 1..Len(DigitChars) : DigitChars[d] = char) - 1

\* Number.parseInt(value, 10) of a string of digits
RECURSIVE parseInt(_)
parseInt(text) ==
    IF text = <<>> THEN 0
    ELSE 10 * parseInt(SubSeq(text, 1, Len(text) - 1)) + DigitValue(text[Len(text)])

parseInteger(text) == IF text = <<>> \/ ~AllDigits(text) THEN NullNumber ELSE parseInt(text)

\* String(n) of a non-negative integer
RECURSIVE String(_)
String(n) ==
    IF n < 10 THEN <<DigitChars[n + 1]>>
    ELSE Append(String(n \div 10), DigitChars[(n % 10) + 1])

\* the numbers the user types: below, inside and above the declared ranges
\* (0, 1, 2, 9 and 99 for the range {1, 8, 2})
TypedNumbers == {0, MinRange, DefaultRange, MaxRange + 1, 11 * (MaxRange + 1)}

\* what an input of type "number" reports as its value: the text when it is a
\* valid number ("2", "02", "-2"), '' otherwise
TypedTexts ==
    {<<>>}
    \cup {String(n) : n \in TypedNumbers}
    \cup {<<"0">> \o String(DefaultRange), <<"-">> \o String(DefaultRange)}

\* the inputs the panel renders for a layout
FieldsOf(layout) ==
    IF layout.kind = "multi_canvas" THEN {"rows", "cols"}
    ELSE IF layout.kind = "dynamic" THEN {"rows_y", "blocks_x"}
    ELSE {}

\* multiCanvasRows, multiCanvasCols, dynamicRowsY, dynamicBlocksX
Derived(layout, request, f) ==
    clampToRange(IF request[f] = Undefined THEN layout[f].default ELSE request[f], layout[f])

\* the four text-sync effects
SyncText(layout, request, texts, editing) ==
    [f \in Fields |->
        IF f \in FieldsOf(layout) /\ ~editing[f]
        THEN String(Derived(layout, request, f))
        ELSE texts[f]]

\* a panel that validates jointly and resets the other field to its default
ForwardedRequestReset(layout, request, f, value) ==
    [g \in Fields |->
        IF g = f THEN value
        ELSE IF g \in FieldsOf(layout) THEN layout[g].default
        ELSE Undefined]

\* the request an input's handler forwards: its own field set to value, the
\* other field of the layout as the panel derived it
ForwardedRequest(layout, request, f, value) ==
    [g \in Fields |->
        IF g = f THEN value
        ELSE IF g \in FieldsOf(layout) THEN Derived(layout, request, g)
        ELSE Undefined]

\* disabled={loading || !state.selected_template_id}
disabled == loading \/ selected_template_id = 0

EngineCall(handler, method, templateId, payload) ==
    [handler |-> handler, method |-> method, templateId |-> templateId, payload |-> payload,
     seq |-> IF method = "pc.setCanvasRequest" THEN Len(sentCanvasRequests) + 1 ELSE 0]

RemoveAt(seq, i) == SubSeq(seq, 1, i - 1) \o SubSeq(seq, i + 1, Len(seq))

\* handleSetTemplate without the initial request
initialCanvasRequestNone(layout) == NullRequest

\* initialCanvasRequest of handleSetTemplate
initialCanvasRequest(layout) ==
    IF layout.kind = "multi_canvas"
    THEN [NullRequest EXCEPT !.rows = layout.rows.default, !.cols = layout.cols.default]
    ELSE IF layout.kind = "dynamic"
    THEN [NullRequest EXCEPT !.rows_y = layout.rows_y.default,
                             !.blocks_x = layout.blocks_x.default]
    ELSE NullRequest

\* the panel after a step: state setters of the step, then the effects
PanelRenders(texts, editing, focus) ==
    /\ isEditing' = editing
    /\ fieldText' = SyncText(canvasLayout', canvas_request', texts, editing)
    /\ focused' = IF focus \in FieldsOf(canvasLayout') THEN focus ELSE NoField

LayoutEventAllowed == layoutEvents < MaxLayoutEvents

\* CanvasSelector.onTemplateChange: dispatch setSelectedTemplateId, handleSetTemplate
SelectTemplate(templateId) ==
    /\ LayoutEventAllowed
    /\ ~loading
    /\ layoutEvents' = layoutEvents + 1
    /\ selected_template_id' = templateId
    /\ IF templateId = 0
       THEN /\ canvasLayout' = NoLayout
            /\ canvas_request' = NullRequest
            /\ resolvedCanvas' = NoCanvas
            /\ UNCHANGED <<loading, layoutCalls>>
       ELSE /\ loading' = TRUE
            /\ layoutCalls' = Append(layoutCalls,
                                     EngineCall("setTemplate", "pc.setTemplate", templateId, NullRequest))
            /\ UNCHANGED <<canvasLayout, canvas_request, resolvedCanvas>>
    /\ UNCHANGED <<sentCanvasRequests, lastForward>>
    /\ UNCHANGED exceptLayout
    /\ PanelRenders(fieldText, isEditing, focused)

\* handleSetTemplate after `await client.call('pc.setTemplate', ...)`
SetTemplateResponds(i, layout) ==
    /\ i \in 1..Len(layoutCalls)
    /\ layoutCalls[i].method = "pc.setTemplate"
    /\ LET initial == initialCanvasRequest(layout)
       IN /\ selected_template_id' = layoutCalls[i].templateId
          /\ canvasLayout' = layout
          /\ resolvedCanvas' = CanvasResolved("pc.setTemplate", 0)
          /\ canvas_request' = initial
          /\ IF initial # NullRequest
             THEN /\ sentCanvasRequests' = Append(sentCanvasRequests, initial)
                  /\ layoutCalls' = [layoutCalls EXCEPT
                         ![i] = EngineCall("setTemplate", "pc.setCanvasRequest", @.templateId, initial)]
                  /\ UNCHANGED loading
             ELSE /\ loading' = FALSE
                  /\ layoutCalls' = RemoveAt(layoutCalls, i)
                  /\ UNCHANGED sentCanvasRequests
    /\ UNCHANGED <<lastForward, layoutEvents>>
    /\ UNCHANGED exceptLayout
    /\ PanelRenders(fieldText, isEditing, focused)

\* handleSetTemplate and handleCanvasRequestChange after
\* `await client.call('pc.setCanvasRequest', ...)`: the Engine echoes the
\* request or answers null
SetCanvasRequestResponds(i, canvasRequest) ==
    /\ i \in 1..Len(layoutCalls)
    /\ layoutCalls[i].method = "pc.setCanvasRequest"
    /\ canvasRequest \in {layoutCalls[i].payload, NullRequest}
    /\ resolvedCanvas' = CanvasResolved("pc.setCanvasRequest", layoutCalls[i].seq)
    /\ canvas_request' = canvasRequest
    /\ loading' = FALSE
    /\ layoutCalls' = RemoveAt(layoutCalls, i)
    /\ UNCHANGED <<selected_template_id, canvasLayout, sentCanvasRequests, lastForward,
                   layoutEvents>>
    /\ UNCHANGED exceptLayout
    /\ PanelRenders(fieldText, isEditing, focused)

\* the awaited call rejects: catch and finally of the handler
LayoutCallFails(i) ==
    /\ i \in 1..Len(layoutCalls)
    /\ IF layoutCalls[i].handler = "setTemplate"
       THEN /\ canvasLayout' = NoLayout
            /\ canvas_request' = NullRequest
            /\ resolvedCanvas' = NoCanvas
       ELSE UNCHANGED <<canvasLayout, canvas_request, resolvedCanvas>>
    /\ loading' = FALSE
    /\ layoutCalls' = RemoveAt(layoutCalls, i)
    /\ UNCHANGED <<selected_template_id, sentCanvasRequests, lastForward, layoutEvents>>
    /\ UNCHANGED exceptLayout
    /\ PanelRenders(fieldText, isEditing, focused)

\* handleUseExternal up to its await
UseExternal ==
    /\ LayoutEventAllowed
    /\ ~loading
    /\ layoutEvents' = layoutEvents + 1
    /\ loading' = TRUE
    /\ layoutCalls' = Append(layoutCalls, EngineCall("useExternal", "pc.useExternal", 0, NullRequest))
    /\ UNCHANGED <<selected_template_id, canvasLayout, canvas_request, fieldText, isEditing,
                   focused, sentCanvasRequests, lastForward, resolvedCanvas>>
    /\ UNCHANGED exceptLayout

\* handleUseExternal after its await: the layout changes, canvas_request stays
UseExternalResponds(i, templateId, layout) ==
    /\ i \in 1..Len(layoutCalls)
    /\ layoutCalls[i].method = "pc.useExternal"
    /\ selected_template_id' = templateId
    /\ canvasLayout' = layout
    /\ resolvedCanvas' = CanvasResolved("pc.useExternal", 0)
    /\ loading' = FALSE
    /\ layoutCalls' = RemoveAt(layoutCalls, i)
    /\ UNCHANGED canvas_request
    /\ UNCHANGED <<sentCanvasRequests, lastForward, layoutEvents>>
    /\ UNCHANGED exceptLayout
    /\ PanelRenders(fieldText, isEditing, focused)

\* handleCanvasRequestChange up to its await
handleCanvasRequestChange(nextRequest) ==
    /\ canvas_request' = nextRequest
    /\ UNCHANGED resolvedCanvas
    /\ IF selected_template_id = 0
       THEN UNCHANGED <<loading, layoutCalls, sentCanvasRequests>>
       ELSE /\ loading' = TRUE
            /\ sentCanvasRequests' = Append(sentCanvasRequests, nextRequest)
            /\ layoutCalls' = Append(layoutCalls,
                   EngineCall("requestChange", "pc.setCanvasRequest", selected_template_id, nextRequest))

\* the panel calls onChange(nextRequest) in the handler of an input event
\* whose event.target.value is text
Forward(op, f, text, nextRequest) ==
    /\ lastForward' = [op |-> op, field |-> f, text |-> text, request |-> nextRequest,
                       layout |-> canvasLayout]
    /\ handleCanvasRequestChange(nextRequest)

\* onFocus of an input; the fieldset is not disabled and no other input has the focus
PanelFocus(f) ==
    /\ LayoutEventAllowed
    /\ f \in FieldsOf(canvasLayout)
    /\ ~disabled
    /\ focused = NoField
    /\ layoutEvents' = layoutEvents + 1
    /\ UNCHANGED <<selected_template_id, canvasLayout, canvas_request, loading, layoutCalls,
                   sentCanvasRequests, lastForward, resolvedCanvas>>
    /\ UNCHANGED exceptLayout
    /\ PanelRenders(fieldText, [isEditing EXCEPT ![f] = TRUE], f)

\* onChange of the focused input
PanelChange(f, nextText) ==
    /\ LayoutEventAllowed
    /\ f \in FieldsOf(canvasLayout)
    /\ ~disabled
    /\ focused = f
    /\ nextText # fieldText[f]
    /\ layoutEvents' = layoutEvents + 1
    /\ LET parsed == parseInteger(nextText)
       IN IF parsed # NullNumber /\ isInRange(parsed, canvasLayout[f])
          THEN Forward("change", f, nextText, ForwardedRequest(canvasLayout, canvas_request, f, parsed))
          ELSE UNCHANGED <<canvas_request, loading, layoutCalls, sentCanvasRequests,
                           lastForward, resolvedCanvas>>
    /\ UNCHANGED <<selected_template_id, canvasLayout>>
    /\ UNCHANGED exceptLayout
    /\ PanelRenders([fieldText EXCEPT ![f] = nextText], isEditing, focused)

\* an onBlur that snaps the text and forwards nothing
PanelBlurSilent(f) ==
    /\ LayoutEventAllowed
    /\ f \in FieldsOf(canvasLayout)
    /\ focused = f
    /\ layoutEvents' = layoutEvents + 1
    /\ UNCHANGED <<selected_template_id, canvasLayout, canvas_request, loading, layoutCalls,
                   sentCanvasRequests, lastForward, resolvedCanvas>>
    /\ LET parsed == parseInteger(fieldText[f])
           finalValue == IF parsed = NullNumber
                         THEN Derived(canvasLayout, canvas_request, f)
                         ELSE clampToRange(parsed, canvasLayout[f])
       IN PanelRenders([fieldText EXCEPT ![f] = String(finalValue)],
                       [isEditing EXCEPT ![f] = FALSE], NoField)
    /\ UNCHANGED exceptLayout

\* onBlur of the focused input; event.target.value is the text of the input.
\* A browser may or may not deliver blur to an input that was disabled while
\* it had the focus, so blur does not depend on `disabled`.
PanelBlur(f) ==
    /\ LayoutEventAllowed
    /\ f \in FieldsOf(canvasLayout)
    /\ focused = f
    /\ layoutEvents' = layoutEvents + 1
    /\ UNCHANGED <<selected_template_id, canvasLayout>>
    /\ LET parsed == parseInteger(fieldText[f])
           finalValue == IF parsed = NullNumber
                         THEN Derived(canvasLayout, canvas_request, f)
                         ELSE clampToRange(parsed, canvasLayout[f])
       IN /\ Forward("blur", f, fieldText[f], ForwardedRequest(canvasLayout, canvas_request, f, finalValue))
          /\ PanelRenders([fieldText EXCEPT ![f] = String(finalValue)],
                          [isEditing EXCEPT ![f] = FALSE], NoField)
    /\ UNCHANGED exceptLayout

\* the focused input was disabled and the focus left it without a blur event
FocusLost ==
    /\ focused # NoField
    /\ disabled
    /\ focused' = NoField
    /\ UNCHANGED <<selected_template_id, canvasLayout, canvas_request, loading, fieldText,
                   isEditing, layoutCalls, sentCanvasRequests, lastForward, resolvedCanvas,
                   layoutEvents>>
    /\ UNCHANGED exceptLayout

NextLayout ==
    \/ \E templateId \in 0..MaxTemplates : SelectTemplate(templateId)
    \/ \E i \in 1..Len(layoutCalls), layout \in Layouts : SetTemplateResponds(i, layout)
    \/ \E i \in 1..Len(layoutCalls) :
          \E canvasRequest \in {NullRequest, layoutCalls[i].payload} :
             SetCanvasRequestResponds(i, canvasRequest)
    \/ \E i \in 1..Len(layoutCalls) : LayoutCallFails(i)
    \/ UseExternal
    \/ \E i \in 1..Len(layoutCalls), templateId \in 1..MaxTemplates, layout \in Layouts :
          UseExternalResponds(i, templateId, layout)
    \/ \E f \in Fields : PanelFocus(f)
    \/ \E f \in Fields, nextText \in TypedTexts : PanelChange(f, nextText)
    \/ \E f \in Fields : PanelBlur(f)
    \/ FocusLost

InitLayoutSpec ==
    /\ Init
    /\ worker = "ok"

SpecLayout == InitLayoutSpec /\ [][NextLayout]_vars

----------------------------------------------------------------------------
\* Claims about CanvasLayoutPanel and template selection

\* C18: every value the panel forwards through onChange lies within the
\* declared [min, max] of its field, and a number entered outside the range is
\* forwarded on blur as the nearest limit (99 as 8 and 0 as 1 for {1, 8, 2}).
C18_ForwardedInRange ==
    lastForward.op # "none" =>
        LET layout == lastForward.layout
            f == lastForward.field
            entered == parseInteger(lastForward.text)
        IN /\ \A g \in FieldsOf(layout) :
                 /\ lastForward.request[g] >= layout[g].min
                 /\ lastForward.request[g] <= layout[g].max
           /\ \A g \in Fields \ FieldsOf(layout) : lastForward.request[g] = Undefined
           /\ (lastForward.op = "blur" /\ entered # NullNumber) =>
                 lastForward.request[f] =
                     IF entered > layout[f].max THEN layout[f].max
                     ELSE IF entered < layout[f].min THEN layout[f].min
                     ELSE entered

\* 11 * (MaxRange + 1) was entered for rows of {MinRange, MaxRange, DefaultRange}
\* and the blur forwarded MaxRange, sent to the Engine as the second request
C18_Witness ==
    /\ lastForward.op = "blur"
    /\ lastForward.field = "rows"
    /\ lastForward.text = String(11 * (MaxRange + 1))
    /\ lastForward.layout.rows.max = MaxRange
    /\ lastForward.request.rows = MaxRange
    /\ Len(sentCanvasRequests) = 2
    /\ sentCanvasRequests[2] = lastForward.request

\* the other field of the layout, after an input event of field f: its derived
\* value and its text are as before, and a request forwarded by the event
\* carries the derived value
C33_OtherKept(f) ==
    \A g \in FieldsOf(canvasLayout) \ {f} :
        /\ Derived(canvasLayout', canvas_request', g) = Derived(canvasLayout, canvas_request, g)
        /\ fieldText'[g] = fieldText[g]
        /\ lastForward' = lastForward
              \/ lastForward'.request[g] = Derived(canvasLayout, canvas_request, g)
        /\ canvas_request' = canvas_request
              \/ canvas_request'[g] = Derived(canvasLayout, canvas_request, g)

C33_Step ==
    \A f \in Fields :
        /\ PanelBlur(f) => C33_OtherKept(f)
        /\ \A nextText \in TypedTexts : PanelChange(f, nextText) => C33_OtherKept(f)

\* C33: a keystroke or a blur in one field of the layout forwards a request in
\* which the other field is its current clamped value, and leaves that value and
\* the text of the other field as they were, whatever was typed.
C33_IndependentClamping == [][C33_Step]_vars

\* rows was set to MinRange, which is not its default, and a later edit of cols
\* forwarded a request that carries rows as MinRange
C33_Witness ==
    /\ lastForward.field = "cols"
    /\ lastForward.layout.rows.default # MinRange
    /\ lastForward.request.rows = MinRange
    /\ canvas_request = lastForward.request

C34_Step ==
    \A f \in Fields :
        /\ \A nextText \in TypedTexts :
              (/\ PanelChange(f, nextText)
               /\ \/ parseInteger(nextText) = NullNumber
                  \/ ~isInRange(parseInteger(nextText), canvasLayout[f])) =>
                  /\ fieldText'[f] = nextText
                  /\ UNCHANGED <<canvas_request, sentCanvasRequests, layoutCalls, lastForward>>
        /\ PanelBlur(f) =>
              LET parsed == parseInteger(fieldText[f])
                  range == canvasLayout[f]
                  snapped == IF parsed = NullNumber THEN Derived(canvasLayout, canvas_request, f)
                             ELSE IF parsed < range.min THEN range.min
                             ELSE IF parsed > range.max THEN range.max
                             ELSE parsed
              IN /\ fieldText'[f] = String(snapped)
                 /\ canvas_request'[f] = snapped
                 /\ lastForward'.op = "blur" /\ lastForward'.request = canvas_request'
                 /\ selected_template_id # 0 =>
                       sentCanvasRequests' = Append(sentCanvasRequests, canvas_request')
                 /\ selected_template_id = 0 => sentCanvasRequests' = sentCanvasRequests

DefaultRequest(layout) ==
    [g \in Fields |-> IF g \in FieldsOf(layout) THEN layout[g].default ELSE Undefined]

C19_Step ==
    /\ Len(sentCanvasRequests') > Len(sentCanvasRequests) =>
          canvasLayout'.kind \in {"multi_canvas", "dynamic"}
    /\ canvasLayout.kind = "fixed" =>
          /\ lastForward' = lastForward
          /\ \A f \in Fields : ~PanelFocus(f) /\ ~PanelBlur(f)
    /\ \A i \in 1..Len(layoutCalls), layout \in Layouts :
          SetTemplateResponds(i, layout) =>
              sentCanvasRequests' =
                  IF layout.kind = "fixed" THEN sentCanvasRequests
                  ELSE Append(sentCanvasRequests, DefaultRequest(layout))

\* C19: no step sends pc.setCanvasRequest and leaves the layout fixed, and with
\* a fixed layout the panel takes no input and forwards nothing; the step that
\* handles a pc.setTemplate response with a multi_canvas or dynamic layout
\* sends exactly one pc.setCanvasRequest, carrying the defaults of the layout,
\* and with a fixed layout it sends none.
C19_InitialRequest == [][C19_Step]_vars

\* the second selection of a template was answered with a multi_canvas layout:
\* the only request sent is the default one, still awaited
C19_Witness ==
    /\ layoutEvents = 2
    /\ canvasLayout.kind = "multi_canvas"
    /\ sentCanvasRequests = <<DefaultRequest(canvasLayout)>>
    /\ Len(layoutCalls) = 1
    /\ layoutCalls[1].handler = "setTemplate"
    /\ layoutCalls[1].method = "pc.setCanvasRequest"
    /\ loading

\* buildPcSettings, the settings of pc.setSettings, pc.renderPreview and
\* pc.generatePnt: of its fields, the one this part follows
buildPcSettings == [canvasRequest |-> canvas_request]

\* every field the request sets is a field of the layout, inside its range
C21_InRange(request, layout) ==
    \A f \in Fields :
        request[f] # Undefined => (f \in FieldsOf(layout) /\ isInRange(request[f], layout[f]))

\* with a template selected, the canvasRequest that buildPcSettings sends
\* fits the active layout
C21_SettingsInRange ==
    selected_template_id # 0 => C21_InRange(buildPcSettings.canvasRequest, canvasLayout)

\* a pc.setCanvasRequest call carries a request that fits the active layout
C21_Step ==
    sentCanvasRequests' # sentCanvasRequests =>
        C21_InRange(sentCanvasRequests'[Len(sentCanvasRequests')], canvasLayout')

\* C21: every canvas request sent to the Engine, by pc.setCanvasRequest (the
\* default request of a new layout, the user's edits) or inside the settings
\* that buildPcSettings builds, has each field inside the active layout's range.
C21_RequestsInRange == []C21_SettingsInRange /\ [][C21_Step]_vars

\* C35: in every state the stored canvas request has no field outside the
\* active layout: none at all when the layout is fixed or absent, at most rows
\* and cols when it is multi_canvas, at most rows_y and blocks_x when it is
\* dynamic.
C35_RequestMatchesLayout ==
    \A f \in Fields : canvas_request[f] # Undefined => f \in FieldsOf(canvasLayout)

C40_Step ==
    \A i \in 1..Len(layoutCalls) :
        \A canvasRequest \in {NullRequest, layoutCalls[i].payload} :
            SetCanvasRequestResponds(i, canvasRequest) =>
                ~(/\ resolvedCanvas.method = "pc.setCanvasRequest"
                  /\ resolvedCanvas.seq > layoutCalls[i].seq)

\* C40: the response to a pc.setCanvasRequest call never replaces a resolved
\* canvas and a stored canvas request that were written from the response to a
\* call issued after it, so that once all outstanding calls have answered the
\* state is that of the most recently issued one.
C40_NewestResponseWins == [][C40_Step]_vars

----------------------------------------------------------------------------
\* Part 5: stableStringify and previewDepsHash.
\*
\* A string is the sequence of its pieces: the characters of a number, the
\* punctuation of JSON, and a key as one piece.  Two equal sequences stand for
\* identical strings.

\* two keys that are distinct property names and canonically equivalent:
\* U+00E9, and U+0065 followed by U+0301
EAcute == "U+00E9"

ECombiningAcute == "U+0065 U+0301"

\* the keys in the order of localeCompare; keys of one class compare as equal
\* (String.prototype.localeCompare returns 0 for canonically equivalent strings)
CollationOrder ==
    <<{"a"}, {"bestColors"}, {"border"}, {"dither"}, {"dyes"}, {EAcute, ECombiningAcute},
      {"enabledDyes"}, {"frame"}, {"imageToken"}, {"layout"}, {"mode"}, {"previewMode"},
      {"showGameObject"}, {"size"}, {"strength"}, {"style"}, {"templateId"},
      {"useAllDyes"}>>

CollationRank(key) == CHOOSE i \in 1..Len(CollationOrder) : key \in CollationOrder[i]

localeCompare(left, right) == CollationRank(left) - CollationRank(right)

\* Array.prototype.sort is stable: an element goes behind the elements that
\* do not compare greater
InsertEntry(sorted, entry) ==
    LET n == Cardinality({i \in 1..Len(sorted) : localeCompare(sorted[i].key, entry.key) <= 0})
    IN SubSeq(sorted, 1, n) \o <<entry>> \o SubSeq(sorted, n + 1, Len(sorted))

\* stableStringify without the sort of the entries
SortEntriesNone(entries) == entries

\* .sort(([left], [right]) => left.localeCompare(right))
RECURSIVE SortEntries(_)
SortEntries(entries) ==
    IF entries = <<>> THEN <<>>
    ELSE InsertEntry(SortEntries(SubSeq(entries, 1, Len(entries) - 1)), entries[Len(entries)])

InsertNumber(sorted, number) ==
    LET n == Cardinality({i \in 1..Len(sorted) : sorted[i] - number <= 0})
    IN SubSeq(sorted, 1, n) \o <<number>> \o SubSeq(sorted, n + 1, Len(sorted))

\* .sort((a, b) => a - b)
RECURSIVE SortNumbers(_)
SortNumbers(numbers) ==
    IF numbers = <<>> THEN <<>>
    ELSE InsertNumber(SortNumbers(SubSeq(numbers, 1, Len(numbers) - 1)), numbers[Len(numbers)])

\* strings.join(',')
RECURSIVE Join(_)
Join(strings) ==
    IF strings = <<>> THEN <<>>
    ELSE IF Len(strings) = 1 THEN strings[1]
    ELSE strings[1] \o <<",">> \o Join(Tail(strings))

RECURSIVE stableStringify(_)
stableStringify(value) ==
    IF value.t = "prim" THEN String(value.n)
    ELSE IF value.t = "array"
    THEN <<"[">> \o Join([i \in 1..Len(value.items) |-> stableStringify(value.items[i].value)])
                \o <<"]">>
    ELSE LET sorted == SortEntries(value.items)
             entries == [i \in 1..Len(sorted) |->
                            <<"\"", sorted[i].key, "\"", ":">> \o stableStringify(sorted[i].value)]
         IN <<"{">> \o Join(entries) \o <<"}">>

\* previewDepsHash of a settings state with the given enabled_dyes (a Set, in
\* insertion order) and canvas_request; the other settings are the same in
\* every state compared here
previewDepsHash(enabled_dyes, canvas) ==
    LET enabledDyes == SortNumbers(enabled_dyes)
    IN stableStringify(Obj(<<
           Entry("templateId", Prim(0)),
           Entry("imageToken", Prim(0)),
           Entry("previewMode", Prim(0)),
           Entry("showGameObject", Prim(0)),
           Entry("dyes", Obj(<<Entry("useAllDyes", Prim(0)),
                               Entry("enabledDyes",
                                     Arr([i \in 1..Len(enabledDyes) |-> Prim(enabledDyes[i])])),
                               Entry("bestColors", Prim(0))>>)),
           Entry("dither", Obj(<<Entry("mode", Prim(0)), Entry("strength", Prim(0))>>)),
           Entry("border", Obj(<<Entry("style", Prim(0)), Entry("size", Prim(0)),
                                 Entry("frame", Prim(0))>>)),
           Entry("layout", canvas)>>))

\* the keys of the values that are fingerprinted, in the order objects are first built
KeyOrder == <<"a", EAcute, ECombiningAcute>>

KeyIndex(key) == CHOOSE i \in 1..Len(KeyOrder) : KeyOrder[i] = key

KeysIn(S) == SelectSeq(KeyOrder, LAMBDA k : k \in S)

KeySets == {S \in SUBSET {KeyOrder[i] : i \in 1..Len(KeyOrder)} : Cardinality(S) <= MaxEntries}

\* an object with the keys S whose values are distinct numbers
LeafObject(S) ==
    LET ks == KeysIn(S)
    IN Obj([i \in 1..Len(ks) |-> Entry(ks[i], Prim(KeyIndex(ks[i])))])

\* what an entry of the fingerprinted object holds: a number, an object, or
\* an array with an object in it
Nested ==
    {Prim(0)}
    \cup {LeafObject(S) : S \in KeySets \ {{}}}
    \cup {Arr(<<LeafObject(S)>>) : S \in {T \in KeySets : Cardinality(T) = 2}}

ObjectsOver(S) ==
    LET ks == KeysIn(S)
    IN {Obj([i \in 1..Len(ks) |-> Entry(ks[i], f[ks[i]])]) : f \in [S -> Nested]}

InitValues == UNION {ObjectsOver(S) : S \in KeySets}

\* the sets of enabled dyes, each inserted in ascending order
InitDyes ==
    {d \in UNION {[1..n -> 1..MaxDyes] : n \in 0..MaxDyes} :
        \A i, j \in 1..Len(d) : i < j => d[i] < d[j]}

\* the canvas_request of the states whose dyes are reordered
NestedRequest ==
    Obj(<<Entry("a", LeafObject({"a", EAcute})), Entry(EAcute, Prim(0))>>)

SwapAt(seq, i) == [seq EXCEPT ![i] = seq[i + 1], ![i + 1] = seq[i]]

\* the values that differ from value by the order of two neighbouring entries
\* of one object, at any depth
RECURSIVE KeySwaps(_)
KeySwaps(value) ==
    IF value.t = "prim" THEN {}
    ELSE (IF value.t = "object"
          THEN {[value EXCEPT !.items = SwapAt(@, i)] : i \in 1..(Len(value.items) - 1)}
          ELSE {})
         \cup UNION {{[value EXCEPT !.items[i].value = w] : w \in KeySwaps(value.items[i].value)} :
                       i \in 1..Len(value.items)}

\* the same value is built with two keys inserted in the other order
ReorderKeys(value) ==
    /\ value \in KeySwaps(rightValue)
    /\ rightValue' = value
    /\ UNCHANGED <<leftValue, leftDyes, rightDyes>>
    /\ UNCHANGED exceptFingerprint

\* the same dye set is built with two dyes enabled in the other order
ReorderDyes(i) ==
    /\ i \in 1..(Len(rightDyes) - 1)
    /\ rightDyes' = SwapAt(rightDyes, i)
    /\ UNCHANGED <<leftValue, rightValue, leftDyes>>
    /\ UNCHANGED exceptFingerprint

NextFingerprint ==
    \/ \E value \in KeySwaps(rightValue) : ReorderKeys(value)
    \/ \E i \in 1..MaxDyes : ReorderDyes(i)

InitFingerprintSpec ==
    /\ InitPreview
    /\ InitClient
    /\ worker = "ok"
    /\ InitSlider
    /\ InitLayout
    /\ \/ \E value \in InitValues : InitFingerprintWith(value, value, <<>>, <<>>)
       \/ \E dyes \in InitDyes : InitFingerprintWith(NestedRequest, NestedRequest, dyes, dyes)

SpecFingerprint == InitFingerprintSpec /\ [][NextFingerprint]_vars

----------------------------------------------------------------------------
\* Claims about fingerprinting

\* C20 as stated: stableStringify gives the same string for two values that
\* differ only in the insertion order of object keys, at any depth, and
\* previewDepsHash is the same for two states whose enabled dyes are the same
\* set built in different orders.
C20_OrderIndependent ==
    /\ stableStringify(leftValue) = stableStringify(rightValue)
    /\ previewDepsHash(leftDyes, leftValue) = previewDepsHash(rightDyes, leftValue)

\* no object of the value has two keys that localeCompare takes as equal
RECURSIVE TieFree(_)
TieFree(value) ==
    /\ value.t = "object" =>
          \A i, j \in 1..Len(value.items) :
              i # j => localeCompare(value.items[i].key, value.items[j].key) # 0
    /\ \A i \in 1..Len(value.items) : TieFree(value.items[i].value)

\* C20 amended: the same, for values in which no object has two keys that
\* localeCompare takes as equal (the settings state has none); previewDepsHash
\* is then also the same when the canvas_request was built in another key order.
C20_OrderIndependentAmended ==
    /\ TieFree(leftValue) =>
          /\ stableStringify(leftValue) = stableStringify(rightValue)
          /\ previewDepsHash(leftDyes, leftValue) = previewDepsHash(rightDyes, rightValue)
    /\ previewDepsHash(leftDyes, leftValue) = previewDepsHash(rightDyes, leftValue)

\* MaxDyes dyes were enabled in the opposite order and both objects of the
\* canvas_request were built in the opposite key order
C20_Witness ==
    /\ Len(leftDyes) = MaxDyes
    /\ \A i \in 1..MaxDyes : rightDyes[i] = leftDyes[MaxDyes + 1 - i]
    /\ TieFree(leftValue)
    /\ rightValue = Obj(<<Entry(EAcute, Prim(0)),
                          Entry("a", Obj(<<Entry(EAcute, Prim(KeyIndex(EAcute))),
                                           Entry("a", Prim(KeyIndex("a")))>>))>>)

====
